---------------------------- MODULE Spec2Model ----------------------------
(***************************************************************************)
(* A model of the Discord bot's response pipeline: the outbound chunker    *)
(* (chunkText), the stream loop of sendMessage, chunk delivery             *)
(* (processAndSendMessage / sendChunkSeries), the heartbeat scheduler      *)
(* (startRandomEventTimer) and the messageCreate handler with the          *)
(* autonomous gate, the process shutdown, the attachment forwarder (its     *)
(* classification, rate limit, image loop, compressImage and reply), the   *)
(* SSE parser of chatStream and the /api/send-message route.               *)
(* Each component has its own variables, its own                           *)
(* initial condition and its own specification; a specification leaves    *)
(* the variables of the other components at rest.                          *)
(*                                                                         *)
(* Texts are sequences of one-character strings.                           *)
(***************************************************************************)
EXTENDS Integers, Sequences, FiniteSets, Bags, TLC

VARIABLES
    \* ---- chunkText(text, limit) --------------------------------------
    ctText,        \* the argument text
    ctLimit,       \* the argument limit
    ctPc,          \* "call" before the call, "done" after it returned
    ctChunks,      \* the returned array of chunks
    \* ---- sendMessage: the stream loop and its result ------------------
    stStream,      \* the chunks grokClient.chatStream yields, in order
    stThrows,      \* TRUE when the stream ends by throwing after them
    stSurface,     \* SURFACE_ERRORS
    stPc,          \* "idle", "streaming", "returned"
    stPos,         \* number of chunks consumed by the for-await loop
    agentMessageResponse,  \* the accumulated reply text
    thinkingContent,       \* the accumulated thinking text
    toolCalls,     \* the tool calls pushed so far
    tokens,        \* TRUE once a done chunk carried tokens
    typingInterval,\* TRUE while the typing setInterval is armed
    stOutcome,     \* how the call ended: "none", "text", "empty", "error"
    stReturn,      \* the string sendMessage returned
    stError,       \* the text of the error the catch block caught
    \* ---- delivery of one reply: reply, then delayed channel sends -----
    dvMsg,         \* the text to deliver (msg !== "")
    dvPc,          \* "idle", "sending", "delay", "done", "failed"
    dvChunks,      \* what is sent: <<msg>> or chunkText(msg, limit)
    dvI,           \* index (0-based) of the chunk whose send is awaited
    dvInFlight,    \* indices of the sends whose promise is pending
    dvSent,        \* the sends started, in order: [i, via]
    dvDelivered,   \* indices of the sends that resolved, in order
    dvDelayArmed,  \* TRUE while the 200 ms setTimeout is pending
    dvDelays,      \* number of inter-chunk delays that elapsed
    dvResult,      \* how the promise of the delivery operation settled
    \* ---- heartbeat scheduler ------------------------------------------
    hbEnabled,     \* ENABLE_TIMER
    hbTzValid,     \* Intl.DateTimeFormat accepts the configured TIMEZONE/LOCALE
    hbChannelId,   \* TRUE when HEARTBEAT_LOG_CHANNEL_ID || CHANNEL_ID is set
    hbAllowedUser, \* TRUE when ALLOWED_DM_USER_ID is set
    hbListenPending, \* the app.listen callback has not run yet
    hbSlot,        \* the heartbeat cycles: timer, callback position, locals
    \* ---- messageCreate handler and the autonomous gate ----------------
    ENABLE_AUTONOMOUS, RESPOND_TO_BOTS, RESPOND_TO_DMS, RESPOND_TO_MENTIONS,
    RESPOND_TO_GENERIC,
    ALLOWED_DM_USER_ID, \* TRUE when set: the author "human" is that user
    CHANNEL_ID,    \* TRUE when set: it names the channel "chan"
    channelState,  \* per channel: consecutiveBotReplies, farewellIssued
    hdTurns,       \* the bag of handler invocations in progress: their
                   \* position and their locals
    nonBotSeen,    \* guild channels in which a non-bot message has arrived
    repliesSent,   \* per channel, the replies delivered before any such message
    farewellSent,  \* channels where a farewell reply was delivered and no
                   \* bot-authored message has arrived since
    \* ---- process shutdown ---------------------------------------------
    sdRun,         \* per signal received, the gracefulShutdown invocation
    sdExited,      \* process.exit was called
    sdFlush,       \* forceFlush: "none", "attempted", "flushed"
    sdConnection,  \* the Discord connection: "none", "live", "destroyed"
    \* ---- attachment forwarder: the per-user rate limit ----------------
    afNow,         \* Date.now(), in seconds
    processingUsers, \* per user the stored timestamp, NoEntry when absent
    afProcessing,  \* per user, the invocations between acceptance and finally
    afTimers,      \* per user, the due times of the pending cleanup timers
    afLastAccept,  \* per user, when an image message was last accepted
    afLast,         \* what the forwarder did with the last image message
    \* ---- one message with attachments before the two listeners --------
    amMessage,     \* the message: its author and its attachments
    amRateLimited, \* TRUE when the author's last image is under 3000 ms old
    amForwarder,   \* what the attachment forwarder did with it, "none" before
    amHandler,      \* what the image check of the main handler did with it
    \* ---- chatStream: the SSE parser of the Grok client -----------------
    csChunks,      \* the network chunks of the response body, each a byte sequence
    csPos,         \* number of chunks the for-await loop has consumed
    buffer,        \* the text received and not yet split into lines
    currentEvent,  \* the event name of the last event line
    csYielded,      \* the (event, data) pairs yielded so far
    \* ---- forwardImagesToGrok and the reply of the handler that called it
    irVariant,     \* "streaming" (attachmentForwarder.ts) or "chat" (messages.ts)
    irStream,      \* what the backend answers: the chunks of the stream
    irThrows,      \* how the answer ends: "no", "socket" or "other" error
    irPc,          \* "call", "streaming", "returned", "done"
    irPos,         \* number of chunks consumed
    text2,         \* the indices of the content chunks collected
    hasSentContent,\* the flag of the streaming variant
    irReturn,      \* what forwardImagesToGrok returned
    irSentInside,  \* content chunks delivered by channel.send inside the call
    irSentByHandler, \* content chunks delivered by the reply of the handler
    \* ---- forwardImagesToGrok: the download and compress loop ----------
    ipImages,      \* per url, whether its download and its compression succeed
    ipSharp,       \* TRUE when loadSharp() finds the sharp module
    ipPos,         \* the loop index i
    base64Images,  \* number of images pushed to the payload
    skippedCount,  \* the counter of the loop
    ipReturn,       \* "none", or how the function went on after the loop
    \* ---- compressImage ------------------------------------------------
    ciSharp,       \* TRUE when loadSharp() finds the sharp module
    forceDimensionCheck, \* the argument (isMultiImage)
    ciPc,          \* "call", "loop", "returned"
    ciImage,       \* the image in buf: its width and height in px
    ciOver,        \* buf.length > SAFE_TARGET_BYTES
    width,         \* the locals of the loop
    quality,
    fmt,
    attempts,
    needsResize,
    ciReturn,       \* "none", "null", or "image" when {buffer: buf} is returned
    \* ---- POST /api/send-message: auto-chunk and send ------------------
    messageContent, \* the text to send, mentions included
    apPc,          \* "request", "sending", "responded"
    apChunks,      \* the chunks computed for it
    apStarted,     \* the indices of the chunks whose send was started, in order
    apInFlight,    \* the number of sends whose promise is pending
    apStatus       \* the HTTP status of the response, 0 before it

ctVars == <<ctText, ctLimit, ctPc, ctChunks>>
stVars == <<stStream, stThrows, stSurface, stPc, stPos, agentMessageResponse,
            thinkingContent, toolCalls, tokens, typingInterval, stOutcome,
            stReturn, stError>>

dvVars == <<dvMsg, dvPc, dvChunks, dvI, dvInFlight, dvSent, dvDelivered,
            dvDelayArmed, dvDelays, dvResult>>

hbVars == <<hbEnabled, hbTzValid, hbChannelId, hbAllowedUser, hbListenPending,
            hbSlot>>

hdVars == <<ENABLE_AUTONOMOUS, RESPOND_TO_BOTS, RESPOND_TO_DMS, RESPOND_TO_MENTIONS,
            RESPOND_TO_GENERIC, ALLOWED_DM_USER_ID, CHANNEL_ID, channelState,
            hdTurns, nonBotSeen, repliesSent, farewellSent>>

hdConfig == <<ENABLE_AUTONOMOUS, RESPOND_TO_BOTS, RESPOND_TO_DMS, RESPOND_TO_MENTIONS,
              RESPOND_TO_GENERIC, ALLOWED_DM_USER_ID, CHANNEL_ID>>

sdVars == <<sdRun, sdExited, sdFlush, sdConnection>>

afVars == <<afNow, processingUsers, afProcessing, afTimers, afLastAccept, afLast>>

amVars == <<amMessage, amRateLimited, amForwarder, amHandler>>

csVars == <<csChunks, csPos, buffer, currentEvent, csYielded>>

irVars == <<irVariant, irStream, irThrows, irPc, irPos, text2, hasSentContent, irReturn, irSentInside, irSentByHandler>>

ipVars == <<ipImages, ipSharp, ipPos, base64Images, skippedCount, ipReturn>>

ciVars == <<ciSharp, forceDimensionCheck, ciPc, ciImage, ciOver, width, quality, fmt, attempts, needsResize, ciReturn>>

apVars == <<messageContent, apPc, apChunks, apStarted, apInFlight, apStatus>>

vars == <<ctVars, stVars, dvVars, hbVars, hdVars, sdVars, afVars, amVars, csVars, irVars, ipVars, ciVars, apVars>>

\* What a specification leaves at rest.
notCt == <<stVars, dvVars, hbVars, hdVars, sdVars, afVars, amVars, csVars, irVars, ipVars, ciVars, apVars>>
notSt == <<ctVars, dvVars, hbVars, hdVars, sdVars, afVars, amVars, csVars, irVars, ipVars, ciVars, apVars>>
notDv == <<ctVars, stVars, hbVars, hdVars, sdVars, afVars, amVars, csVars, irVars, ipVars, ciVars, apVars>>
notHb == <<ctVars, stVars, dvVars, hdVars, sdVars, afVars, amVars, csVars, irVars, ipVars, ciVars, apVars>>
notHd == <<ctVars, stVars, dvVars, hbVars, sdVars, afVars, amVars, csVars, irVars, ipVars, ciVars, apVars>>
notSd == <<ctVars, stVars, dvVars, hbVars, hdVars, afVars, amVars, csVars, irVars, ipVars, ciVars, apVars>>
notAf == <<ctVars, stVars, dvVars, hbVars, hdVars, sdVars, amVars, csVars, irVars, ipVars, ciVars, apVars>>
notAm == <<ctVars, stVars, dvVars, hbVars, hdVars, sdVars, afVars, csVars, irVars, ipVars, ciVars, apVars>>
notCs == <<ctVars, stVars, dvVars, hbVars, hdVars, sdVars, afVars, amVars, irVars, ipVars, ciVars, apVars>>
notIr == <<ctVars, stVars, dvVars, hbVars, hdVars, sdVars, afVars, amVars, csVars, ipVars, ciVars, apVars>>
notIp == <<ctVars, stVars, dvVars, hbVars, hdVars, sdVars, afVars, amVars, csVars, irVars, ciVars, apVars>>
notCi == <<ctVars, stVars, dvVars, hbVars, hdVars, sdVars, afVars, amVars, csVars, irVars, ipVars, apVars>>
notAp == <<ctVars, stVars, dvVars, hbVars, hdVars, sdVars, afVars, amVars, csVars, irVars, ipVars, ciVars>>

-----------------------------------------------------------------------------
(* Helpers over sequences.                                                 *)

Min(a, b) == IF a < b THEN a ELSE b

Range(s) == {s[k] : k \in 1..Len(s)}

\* All sequences over S of length 0..n.
SeqsUpTo(S, n) == UNION {[1..k -> S] : k \in 0..n}

RECURSIVE Concat(_)
\* chunks.join(''): the concatenation of a sequence of texts.
Concat(ss) == IF ss = <<>> THEN <<>> ELSE Head(ss) \o Concat(Tail(ss))

-----------------------------------------------------------------------------
(* Bounds of the chunker's inputs.                                         *)

MaxLen == 11       \* longest text tried
MaxLimit == 7      \* largest limit tried

NL == "\n"
Alphabet == {"a", NL}

-----------------------------------------------------------------------------
(* chunkText, src/unnamed/part_000:208-225 (same code in                   *)
(* src/src/attachmentForwarder.ts:6-23 and src/src/messages.ts:392-409).   *)
(* Indices i, end, lastNewline are 0-based as in the source; text.slice(i, *)
(* end) is SubSeq(text, i + 1, end).                                       *)

\* A chunker that trims the newline ending a slice, as currentChunk.trimEnd()
\* does in the /api/send-message splitter.
SliceTrimEnd(text, i, end) ==
    IF end > i /\ text[end] = NL THEN SubSeq(text, i + 1, end - 1)
                                ELSE SubSeq(text, i + 1, end)

\* text.slice(i, end)
Slice(text, i, end) == SubSeq(text, i + 1, end)

\* slice.lastIndexOf('\n'): 0-based index of the last newline, -1 if none.
LastIndexOfNewline(slice) ==
    LET hits == {k \in 1..Len(slice) : slice[k] = NL}
    IN  IF hits = {} THEN -1
        ELSE (CHOOSE k \in hits : \A j \in hits : j <= k) - 1

\* A threshold at half of the limit.
NewlineThresholdHalf(limit) == limit \div 2

\* A threshold that lets any newline of the window be the cut point.
NewlineThresholdNone(limit) == -1

\* Math.floor(limit * 0.6); equal to (6 * limit) \div 10 for every limit
\* up to 5000 in IEEE double arithmetic.
NewlineThreshold(limit) == (6 * limit) \div 10

\* A window one character too wide.
WindowEndOffByOne(text, limit, i) == Min(i + limit + 1, Len(text))

\* let end = Math.min(i + limit, text.length)
WindowEnd(text, limit, i) == Min(i + limit, Len(text))

\* The value of `end` after the newline adjustment of one loop iteration.
ChunkEnd(text, limit, i) ==
    LET end == WindowEnd(text, limit, i)
        lastNewline == LastIndexOfNewline(Slice(text, i, end))
    IN  IF end < Len(text) /\ lastNewline > NewlineThreshold(limit)
        THEN i + lastNewline + 1
        ELSE end

RECURSIVE ChunkLoop(_, _, _)
\* The while loop from index i on: chunks.push(slice); i = end.
ChunkLoop(text, limit, i) ==
    IF i < Len(text)
    THEN LET end == ChunkEnd(text, limit, i)
         IN  <<Slice(text, i, end)>> \o ChunkLoop(text, limit, end)
    ELSE <<>>

chunkText(text, limit) == ChunkLoop(text, limit, 0)

-----------------------------------------------------------------------------
(* The chunker at rest, and its specification: any text and limit, then    *)
(* the call.                                                               *)

ChunkOff == ctText = <<>> /\ ctLimit = 1 /\ ctPc = "off" /\ ctChunks = <<>>

ChunkInit ==
    /\ ctText \in SeqsUpTo(Alphabet, MaxLen)
    /\ ctLimit \in 1..MaxLimit
    /\ ctPc = "call"
    /\ ctChunks = <<>>

ChunkCall ==
    /\ ctPc = "call"
    /\ ctChunks' = chunkText(ctText, ctLimit)
    /\ ctPc' = "done"
    /\ UNCHANGED <<ctText, ctLimit, notCt>>

ChunkNext == ChunkCall

\* Some chunk other than the last was cut after a newline before the window end.
CutAtNewline ==
    \E k \in 1..(Len(ctChunks) - 1) :
        /\ Len(ctChunks[k]) < ctLimit
        /\ ctChunks[k][Len(ctChunks[k])] = NL

\* C3: for every text s and every limit L > 0, the chunks of chunkText(s, L)
\* concatenated in order are exactly s.
C3_ConcatIsInput == ctPc = "done" => Concat(ctChunks) = ctText

\* A call that returned several chunks, one of them cut at a newline.
C3_Witness == ctPc = "done" /\ Len(ctChunks) >= 2 /\ CutAtNewline

\* C4: for every text s and every limit L > 0, every chunk of chunkText(s, L)
\* has between 1 and L characters, and a non-empty s gives at least one chunk.
C4_ChunkLengths ==
    ctPc = "done" =>
        /\ \A k \in 1..Len(ctChunks) :
               Len(ctChunks[k]) >= 1 /\ Len(ctChunks[k]) <= ctLimit
        /\ (ctText # <<>> => Len(ctChunks) >= 1)

\* A call with a chunk of exactly L characters and a shorter newline-cut chunk.
C4_Witness ==
    /\ ctPc = "done"
    /\ CutAtNewline
    /\ \E k \in 1..Len(ctChunks) : Len(ctChunks[k]) = ctLimit

\* The 0-based index at which chunk k of the result starts in the text.
ChunkStart(k) == Len(Concat(SubSeq(ctChunks, 1, k - 1)))

\* The window of chunk k: the limit characters from its start on.
Window(k) == SubSeq(ctText, ChunkStart(k) + 1, ChunkStart(k) + ctLimit)

\* C29: a chunk other than the last ends just after the last newline of its
\* window exactly when the index of that newline in the window is greater
\* than floor(0.6 * limit), and is limit characters long otherwise; so it is
\* longer than 60% of the limit.
C29_NewlineCutRule ==
    ctPc = "done" =>
        \A k \in 1..(Len(ctChunks) - 1) :
            LET lastNewline == LastIndexOfNewline(Window(k)) IN
            /\ Len(ctChunks[k]) = IF lastNewline > (6 * ctLimit) \div 10
                                  THEN lastNewline + 1
                                  ELSE ctLimit
            /\ 10 * Len(ctChunks[k]) > 6 * ctLimit

\* A call with a chunk cut after the last newline of its window, before the
\* window end, although an earlier newline of the window lies at or below the
\* threshold.
C29_Witness ==
    /\ ctPc = "done"
    /\ \E k \in 1..(Len(ctChunks) - 1) :
          /\ LastIndexOfNewline(Window(k)) > (6 * ctLimit) \div 10
          /\ Len(ctChunks[k]) < ctLimit
          /\ \E j \in 1..((6 * ctLimit) \div 10 + 1) : ctChunks[k][j] = NL

-----------------------------------------------------------------------------
(* sendMessage, src/src/messages.ts:42-301 (compiled copy in               *)
(* src/src/voiceTranscription.ts:232-423): the typing interval, the        *)
(* for-await loop over grokClient.chatStream, the empty-response check and *)
(* the catch block.                                                        *)

MaxStreamLen == 4   \* longest stream tried

\* The chunk objects chatStream can yield (src/unnamed/part_001:157-165):
\* event is the text of the last "event:" line, data the parsed JSON.  A
\* content_reset event is yielded like any other: chatStream does not
\* filter event names.
Chunk(event, content, hasResponse, response, hasTokens) ==
    [event |-> event, content |-> content, hasResponse |-> hasResponse,
     response |-> response, hasTokens |-> hasTokens]

StreamChunks ==
    { Chunk("content", <<"a", "b">>, FALSE, <<>>, FALSE),
      Chunk("content", <<"c", "d">>, FALSE, <<>>, FALSE),
      Chunk("content", <<" ">>, FALSE, <<>>, FALSE),
      Chunk("thinking", <<"t">>, FALSE, <<>>, FALSE),
      Chunk("tool_call", <<>>, FALSE, <<>>, FALSE),
      Chunk("content_reset", <<>>, FALSE, <<>>, FALSE),
      Chunk("done", <<>>, FALSE, <<>>, TRUE),
      Chunk("done", <<>>, TRUE, <<"x", "y", "z">>, FALSE) }

\* The substrings the catch block looks for in the text of an error.
ErrorMarkers == {"timeout", "ECONNREFUSED", "ENOTFOUND"}

\* The texts of the errors a failed backend call raises: a text is given by
\* the markers it contains (none in "socket hang up", two in
\* "connect ECONNREFUSED after timeout").
ErrorMessages == SUBSET ErrorMarkers

\* errorMessage.includes(marker)
Includes(errorMessage, marker) == marker \in errorMessage

\* !s || !s.trim()
IsBlank(s) == \A k \in 1..Len(s) : s[k] \in {" ", NL}

\* The canned replies, each a text of its own.
ForgotNotice == <<"Beep boop. I thought about your message but forgot to respond">>
TimeoutNotice == <<"**Timeout Error**">>
ConnectionNotice == <<"**Connection Error**">>
GenericNotice(errorMessage) == <<"**Error**", errorMessage>>

\* A classification that looks for the connection markers first.
ErrorReplyConnectionFirst(surface, errorMessage) ==
    IF ~surface THEN <<>>
    ELSE IF Includes(errorMessage, "ECONNREFUSED")
            \/ Includes(errorMessage, "ENOTFOUND") THEN ConnectionNotice
    ELSE IF Includes(errorMessage, "timeout") THEN TimeoutNotice
    ELSE GenericNotice(errorMessage)

\* The catch block's choice, messages.ts:289-299.
ErrorReply(surface, errorMessage) ==
    IF ~surface THEN <<>>
    ELSE IF Includes(errorMessage, "timeout") THEN TimeoutNotice
    ELSE IF Includes(errorMessage, "ECONNREFUSED")
            \/ Includes(errorMessage, "ENOTFOUND") THEN ConnectionNotice
    ELSE GenericNotice(errorMessage)

\* The empty-response check, messages.ts:236-241.
EmptyReply(surface) == IF surface THEN ForgotNotice ELSE <<>>

StreamOff ==
    /\ stStream = <<>> /\ stThrows = FALSE /\ stSurface = FALSE
    /\ stPc = "off" /\ stPos = 0 /\ agentMessageResponse = <<>>
    /\ thinkingContent = <<>> /\ toolCalls = 0 /\ tokens = FALSE
    /\ typingInterval = FALSE /\ stOutcome = "none" /\ stReturn = <<>>
    /\ stError = {}

StreamInit ==
    /\ stStream \in SeqsUpTo(StreamChunks, MaxStreamLen)
    /\ stThrows \in BOOLEAN
    /\ stSurface \in BOOLEAN
    /\ stPc = "idle" /\ stPos = 0 /\ agentMessageResponse = <<>>
    /\ thinkingContent = <<>> /\ toolCalls = 0 /\ tokens = FALSE
    /\ typingInterval = FALSE /\ stOutcome = "none" /\ stReturn = <<>>
    /\ stError = {}

\* messages.ts:179-201: arm the typing interval, reset the accumulators and
\* open the stream.
StBegin ==
    /\ stPc = "idle"
    /\ typingInterval' = TRUE
    /\ agentMessageResponse' = <<>>
    /\ thinkingContent' = <<>>
    /\ toolCalls' = 0
    /\ tokens' = FALSE
    /\ stPc' = "streaming"
    /\ UNCHANGED <<stStream, stThrows, stSurface, stPos, stOutcome, stReturn,
                   stError, notSt>>

\* The text the loop body leaves in agentMessageResponse, messages.ts:206-231.
AfterChunk(acc, chunk) ==
    IF chunk.event = "content" THEN acc \o chunk.content ELSE acc

\* One iteration of the for-await loop.
StChunk ==
    /\ stPc = "streaming"
    /\ stPos < Len(stStream)
    /\ LET chunk == stStream[stPos + 1] IN
        /\ agentMessageResponse' = AfterChunk(agentMessageResponse, chunk)
        /\ thinkingContent' = IF chunk.event = "thinking"
                              THEN thinkingContent \o chunk.content
                              ELSE thinkingContent
        /\ toolCalls' = IF chunk.event = "tool_call" THEN toolCalls + 1 ELSE toolCalls
        /\ tokens' = (tokens \/ (chunk.event = "done" /\ chunk.hasTokens))
    /\ stPos' = stPos + 1
    /\ UNCHANGED <<stStream, stThrows, stSurface, stPc, typingInterval, stOutcome,
                   stReturn, stError, notSt>>

\* The stream ended: clearInterval, the empty check, return (messages.ts:234-280).
StReturn ==
    /\ stPc = "streaming"
    /\ stPos = Len(stStream)
    /\ ~stThrows
    /\ typingInterval' = FALSE
    /\ IF IsBlank(agentMessageResponse)
       THEN stReturn' = EmptyReply(stSurface) /\ stOutcome' = "empty"
       ELSE stReturn' = agentMessageResponse /\ stOutcome' = "text"
    /\ stPc' = "returned"
    /\ UNCHANGED <<stStream, stThrows, stSurface, stPos, agentMessageResponse,
                   thinkingContent, toolCalls, tokens, stError, notSt>>

\* A catch block that leaves the typing interval armed.
StCatchKeepsTimer ==
    /\ stPc = "streaming"
    /\ stPos = Len(stStream)
    /\ stThrows
    /\ \E errorMessage \in ErrorMessages :
          /\ stReturn' = ErrorReply(stSurface, errorMessage)
          /\ stError' = errorMessage
    /\ stOutcome' = "error"
    /\ stPc' = "returned"
    /\ UNCHANGED <<stStream, stThrows, stSurface, stPos, agentMessageResponse,
                   thinkingContent, toolCalls, tokens, typingInterval, notSt>>

\* The stream threw: the catch block (messages.ts:282-300).
StCatch ==
    /\ stPc = "streaming"
    /\ stPos = Len(stStream)
    /\ stThrows
    /\ \E errorMessage \in ErrorMessages :
          /\ stReturn' = ErrorReply(stSurface, errorMessage)
          /\ stError' = errorMessage
    /\ typingInterval' = FALSE
    /\ stOutcome' = "error"
    /\ stPc' = "returned"
    /\ UNCHANGED <<stStream, stThrows, stSurface, stPos, agentMessageResponse,
                   thinkingContent, toolCalls, tokens, notSt>>

\* The attachment forwarder's turn, as far as its typing interval goes
\* (attachmentForwarder.ts:239-356); what forwardImagesToGrok does with the
\* stream is left out, its outcome is drawn.
\* 239-297: the processing notice, setInterval, the call of
\* forwardImagesToGrok.
FwBegin ==
    /\ stPc = "idle"
    /\ typingInterval' = TRUE
    /\ stPc' = "forwarding"
    /\ UNCHANGED <<stStream, stThrows, stSurface, stPos, agentMessageResponse,
                   thinkingContent, toolCalls, tokens, stOutcome, stReturn,
                   stError, notSt>>

\* The finally block (attachmentForwarder.ts:342-355) clears the interval.
FwFinally(outcome) ==
    /\ typingInterval' = FALSE
    /\ stOutcome' = outcome
    /\ stPc' = "forwarded"

\* forwardImagesToGrok settles (attachmentForwarder.ts:297-341): a text is
\* sent as the reply, an empty text goes to the finally block, a throw goes to
\* the catch block and its error reply.
FwSettle ==
    /\ stPc = "forwarding"
    /\ \E result \in {"reply", "empty", "throw"} :
          IF result = "empty" THEN FwFinally("empty")
          ELSE /\ stPc' = (IF result = "reply" THEN "fwReply" ELSE "fwErrorReply")
               /\ UNCHANGED <<typingInterval, stOutcome>>
    /\ UNCHANGED <<stStream, stThrows, stSurface, stPos, agentMessageResponse,
                   thinkingContent, toolCalls, tokens, stReturn, stError, notSt>>

\* The awaited msg.reply(reply) settles (attachmentForwarder.ts:303-309): a
\* rejection goes to the catch block.
FwReplySettled ==
    /\ stPc = "fwReply"
    /\ \E ok \in BOOLEAN :
          IF ok THEN FwFinally("text")
          ELSE stPc' = "fwErrorReply" /\ UNCHANGED <<typingInterval, stOutcome>>
    /\ UNCHANGED <<stStream, stThrows, stSurface, stPos, agentMessageResponse,
                   thinkingContent, toolCalls, tokens, stReturn, stError, notSt>>

\* The error reply of the catch block settles, either way
\* (attachmentForwarder.ts:336-340).
FwErrorReplySettled ==
    /\ stPc = "fwErrorReply"
    /\ FwFinally("error")
    /\ UNCHANGED <<stStream, stThrows, stSurface, stPos, agentMessageResponse,
                   thinkingContent, toolCalls, tokens, stReturn, stError, notSt>>

StreamNext ==
    \/ StBegin \/ StChunk \/ StReturn \/ StCatch
    \/ FwBegin \/ FwSettle \/ FwReplySettled \/ FwErrorReplySettled

\* if (msg !== "") the caller sends msg (part_000:290-312).
Replies(msg) == msg # <<>>

\* Positions of the chunks of the given event in a stream.
Positions(stream, event) == {k \in 1..Len(stream) : stream[k].event = event}

Last(S) == CHOOSE k \in S : \A j \in S : j <= k

RECURSIVE ContentFrom(_, _)
\* The content events of stream[k..], concatenated.
ContentFrom(stream, k) ==
    IF k > Len(stream) THEN <<>>
    ELSE (IF stream[k].event = "content" THEN stream[k].content ELSE <<>>)
         \o ContentFrom(stream, k + 1)

\* The done chunks that carry a response string.
Authoritative(stream) == {k \in Positions(stream, "done") : stream[k].hasResponse}

\* The call went through the whole stream and returned normally.
StreamCompleted == stPc = "returned" /\ ~stThrows

\* C5: when the stream's done event carries an authoritative response string,
\* the text returned for the turn is that response string, even if content
\* events before it add up to another text.
C5_DoneResponseIsReturned ==
    (/\ StreamCompleted
     /\ Authoritative(stStream) # {}
     /\ ~IsBlank(ContentFrom(stStream, 1)))
        => stReturn = stStream[Last(Authoritative(stStream))].response

\* C6: when a content_reset event arrives, the content accumulated before it is
\* discarded: the returned text is the concatenation of the content events after
\* the last content_reset (the empty-reply value when that is blank).
C6_ContentResetDiscards ==
    (/\ StreamCompleted
     /\ Positions(stStream, "content_reset") # {}
     /\ Authoritative(stStream) = {})
        => LET kept == ContentFrom(stStream, Last(Positions(stStream, "content_reset")))
           IN  stReturn = IF IsBlank(kept) THEN EmptyReply(stSurface) ELSE kept

\* C14: when the stream ends with an error after content events were received,
\* the call returns the text accumulated so far, and no error outcome takes
\* its place.
C14_PartialTextIsResult ==
    (stPc = "returned" /\ stThrows /\ ~IsBlank(agentMessageResponse))
        => stReturn = agentMessageResponse /\ stOutcome # "error"

\* C21: with surfaceErrors off, a turn whose backend call failed or whose
\* final text is empty sends nothing: the caller of sendMessage has nothing to
\* reply with, and the forwarder sends no error reply.
C21_SilentWithoutSurfaceErrors ==
    ~stSurface =>
        /\ (stPc = "returned" /\ stOutcome \in {"error", "empty"})
              => ~Replies(stReturn)
        /\ stPc # "fwErrorReply"

\* C22: a failed backend call makes sendMessage return, and with surfaceErrors
\* on the value is the timeout notice if the error text contains "timeout",
\* else the connection notice if it contains ECONNREFUSED or ENOTFOUND, else
\* the generic notice.
C22_ClassifiedErrorReply ==
    (stPc = "returned" /\ stThrows) =>
        /\ stOutcome = "error"
        /\ stSurface =>
              stReturn = IF "timeout" \in stError THEN TimeoutNotice
                         ELSE IF stError \cap {"ECONNREFUSED", "ENOTFOUND"} # {}
                         THEN ConnectionNotice
                         ELSE GenericNotice(stError)

\* An error whose text contains both "timeout" and ECONNREFUSED was answered
\* with the timeout notice.
C22_Witness ==
    /\ stPc = "returned" /\ stThrows /\ stSurface
    /\ stError = {"timeout", "ECONNREFUSED"}
    /\ stReturn = TimeoutNotice

\* C23: what sendMessage returns for a stream that completed with empty final
\* text is not what it returns for a failed backend call, whatever
\* surfaceErrors is.
C23_EmptyDistinctFromFailure ==
    (stPc = "returned" /\ stOutcome = "empty")
        => \A errorMessage \in ErrorMessages :
              stReturn # ErrorReply(stSurface, errorMessage)

\* C24: once a turn has returned, by whichever exit, its typing interval is
\* cleared.
C24_TypingTimerCancelled ==
    stPc \in {"returned", "forwarded"} => ~typingInterval

\* sendMessage has returned through its catch block and the interval is
\* cleared.
C24_Witness ==
    stPc = "returned" /\ stOutcome = "error" /\ ~typingInterval


-----------------------------------------------------------------------------
(* Delivery of a reply, src/unnamed/part_000:299-311 in                    *)
(* processAndSendMessage (the same sequence in part_000:584-596, 733-757,  *)
(* 392-404 and in sendChunkSeries, src/src/attachmentForwarder.ts:25-53):  *)
(* await message.reply(chunks[0]); then for each further chunk             *)
(* await setTimeout(200); await message.channel.send(chunks[i]).           *)
(* A rejected send throws into the enclosing catch, which ends the turn.   *)

MaxMsgLen == 12     \* longest reply delivered
DeliveryLimit == 6  \* stands for the limit 1900 of the source, scaled down

DeliverOff ==
    /\ dvMsg = <<>> /\ dvPc = "off" /\ dvChunks = <<>> /\ dvI = 0
    /\ dvInFlight = {} /\ dvSent = <<>> /\ dvDelivered = <<>>
    /\ dvDelayArmed = FALSE /\ dvDelays = 0 /\ dvResult = "pending"

DeliverInit ==
    /\ dvMsg \in SeqsUpTo(Alphabet, MaxMsgLen) \ {<<>>}
    /\ dvPc = "idle" /\ dvChunks = <<>> /\ dvI = 0
    /\ dvInFlight = {} /\ dvSent = <<>> /\ dvDelivered = <<>>
    /\ dvDelayArmed = FALSE /\ dvDelays = 0 /\ dvResult = "pending"

\* if (msg.length <= 1900) one message, else chunkText(msg, 1900).
ChunksToSend(msg) ==
    IF Len(msg) <= DeliveryLimit THEN <<msg>> ELSE chunkText(msg, DeliveryLimit)

\* A delivery loop that does not await the send it started.
SendNotAwaited(i) == TRUE

\* `await send(...)`: the code after it runs once the send's promise settled.
SendSettled(i) == i \notin dvInFlight

\* part_000:299-305: build the chunks and start the first send, as a reply.
DvBegin ==
    /\ dvPc = "idle"
    /\ dvChunks' = ChunksToSend(dvMsg)
    /\ dvI' = 0
    /\ dvInFlight' = {0}
    /\ dvSent' = <<[i |-> 0, via |-> "reply"]>>
    /\ dvPc' = "sending"
    /\ UNCHANGED <<dvMsg, dvDelivered, dvDelayArmed, dvDelays, dvResult, notDv>>

\* The platform accepts a pending send: its promise resolves.
DvResolve ==
    /\ \E k \in dvInFlight :
          /\ dvInFlight' = dvInFlight \ {k}
          /\ dvDelivered' = Append(dvDelivered, k)
    /\ UNCHANGED <<dvMsg, dvPc, dvChunks, dvI, dvSent, dvDelayArmed, dvDelays,
                   dvResult, notDv>>

\* A delivery whose loop goes on to the next chunk after a refused send.
DvRejectGoesOn ==
    /\ dvPc \in {"sending", "delay"}
    /\ \E k \in dvInFlight : dvInFlight' = dvInFlight \ {k}
    /\ UNCHANGED <<dvMsg, dvPc, dvChunks, dvI, dvSent, dvDelivered, dvDelayArmed,
                   dvDelays, dvResult, notDv>>

\* The platform refuses a pending send: the await throws into the catch
\* (part_000:314-316; attachmentForwarder.ts:50-52), the remaining chunks are
\* not sent.  The catch logs the error and the operation returns: its promise
\* resolves.
DvReject ==
    /\ dvPc \in {"sending", "delay"}
    /\ \E k \in dvInFlight : dvInFlight' = dvInFlight \ {k}
    /\ dvPc' = "failed"
    /\ dvDelayArmed' = FALSE
    /\ dvResult' = "resolved"
    /\ UNCHANGED <<dvMsg, dvChunks, dvI, dvSent, dvDelivered, dvDelays, notDv>>

\* After the awaited send: the next loop iteration arms the 200 ms timer
\* (part_000:306-307), or the loop is over and the operation returns.
DvAwaited ==
    /\ dvPc = "sending"
    /\ SendSettled(dvI)
    /\ IF dvI + 1 < Len(dvChunks)
       THEN /\ dvI' = dvI + 1 /\ dvDelayArmed' = TRUE /\ dvPc' = "delay"
            /\ UNCHANGED dvResult
       ELSE /\ dvI' = dvI /\ dvDelayArmed' = FALSE /\ dvPc' = "done"
            /\ dvResult' = "resolved"
    /\ UNCHANGED <<dvMsg, dvChunks, dvInFlight, dvSent, dvDelivered, dvDelays, notDv>>

\* The timer fires: message.channel.send(chunks[i]) is started (part_000:308).
DvDelayFire ==
    /\ dvPc = "delay"
    /\ dvDelayArmed
    /\ dvDelayArmed' = FALSE
    /\ dvDelays' = dvDelays + 1
    /\ dvInFlight' = dvInFlight \cup {dvI}
    /\ dvSent' = Append(dvSent, [i |-> dvI, via |-> "send"])
    /\ dvPc' = "sending"
    /\ UNCHANGED <<dvMsg, dvChunks, dvI, dvDelivered, dvResult, notDv>>

DeliverNext == DvBegin \/ DvResolve \/ DvReject \/ DvAwaited \/ DvDelayFire

\* C7: within one turn the chunks are sent in index order, the send of chunk
\* k+1 starts only after the send of chunk k resolved and the inter-chunk delay
\* elapsed, and no two sends of the turn are in flight together.
C7_SequentialDelivery ==
    /\ Cardinality(dvInFlight) <= 1
    /\ \A k \in 1..Len(dvSent) :
          /\ dvSent[k].i = k - 1
          /\ dvSent[k].via = (IF k = 1 THEN "reply" ELSE "send")
          /\ k > 1 => (k - 2) \in Range(dvDelivered)
          /\ dvDelays >= k - 1
    /\ \A k \in 1..Len(dvDelivered) : dvDelivered[k] = k - 1

\* A turn of three chunks whose third send is in flight.
C7_Witness ==
    /\ Len(dvChunks) >= 3
    /\ dvInFlight = {2}
    /\ Len(dvDelivered) = 2

\* The chunks whose send was refused: started, no longer pending, not
\* delivered.
FailedSends ==
    {k \in {dvSent[j].i : j \in 1..Len(dvSent)} :
        k \notin dvInFlight /\ k \notin Range(dvDelivered)}

\* C15: when the send of chunk k fails, no chunk with a greater index is sent,
\* and the chunks delivered before it stay delivered.
C15_FailureStopsDelivery ==
    \A k \in FailedSends :
        /\ \A j \in 1..Len(dvSent) : dvSent[j].i <= k
        /\ \A i \in 0..(k - 1) : i \in Range(dvDelivered)

\* The second of at least three chunks was refused after the first was
\* delivered, and the operation has returned.
C15_Witness ==
    /\ Len(dvChunks) >= 3
    /\ FailedSends = {1}
    /\ dvDelivered = <<0>>
    /\ dvPc = "failed" /\ dvResult # "pending"

\* The reply is to the limit as 2500 is to 1900: its length is the integer
\* nearest to limit * 2500 / 1900.
ProportionalReply ==
    /\ 19 * Len(dvMsg) - 25 * DeliveryLimit <= 9
    /\ 25 * DeliveryLimit - 19 * Len(dvMsg) <= 9

\* C30: a reply of length 2500 under the limit 1900 (here in proportion), with
\* newlines anywhere, gives exactly two chunks; the first is sent as a reply
\* to the message, the second to the channel after the inter-chunk delay, and
\* nothing else is sent.
C30_TwoChunksForProportionalReply ==
    (dvPc # "idle" /\ ProportionalReply) =>
        /\ Len(dvChunks) = 2
        /\ Len(dvSent) \in 1..2
        /\ dvSent[1] = [i |-> 0, via |-> "reply"]
        /\ Len(dvSent) = 2 =>
              /\ dvSent[2] = [i |-> 1, via |-> "send"]
              /\ dvDelays = 1
              /\ 0 \in Range(dvDelivered)
        /\ dvPc = "done" => dvDelivered = <<0, 1>>

\* Such a reply, cut after a newline before the window end, was delivered in
\* two sends.
C30_Witness ==
    /\ dvPc = "done" /\ ProportionalReply
    /\ Len(dvChunks[1]) < DeliveryLimit
    /\ dvDelivered = <<0, 1>>

\* C16: when a chunk send fails, the delivery operation lets its caller see
\* it: the operation's promise rejects.
C16_FailureSurfaced ==
    (FailedSends # {} /\ dvResult # "pending") => dvResult = "rejected"

-----------------------------------------------------------------------------
(* The heartbeat scheduler: getHeartbeatConfigForTime                      *)
(* (src/unnamed/part_000:158-200), startRandomEventTimer (part_000:319-428)*)
(* with sendTimerMessage (src/src/voiceTranscription.ts:428-568), started  *)
(* once by the app.listen callback (part_000:1209-1232).                   *)
(*                                                                         *)
(* A cycle is a timer armed by startRandomEventTimer, the callback it runs *)
(* and the 1000 ms timer the callback arms at its end.  hbSlot holds the   *)
(* cycles that exist; a slot is "free" when it holds none.                 *)

HbSlots == 2        \* cycles that can exist side by side in the model

Slots == 1..HbSlots

\* The hour Intl.DateTimeFormat reports with hour12: false (0..23, and "24"
\* for midnight under the h24 hour cycle).
Hours == 0..24

\* Math.random() in hundredths: the values around every firing probability.
Randoms == {0, 19, 20, 24, 25, 32, 33, 39, 40, 49, 50, 99}

\* getHeartbeatConfigForTime: the band of an hour; firingProbability in percent.
getHeartbeatConfigForTime(hour) ==
    IF hour >= 7 /\ hour < 9 THEN
        [intervalMinutes |-> 30, firingProbability |-> 50, description |-> "Morgen"]
    ELSE IF hour >= 9 /\ hour < 12 THEN
        [intervalMinutes |-> 45, firingProbability |-> 33, description |-> "Vormittag"]
    ELSE IF hour >= 12 /\ hour < 14 THEN
        [intervalMinutes |-> 15, firingProbability |-> 33, description |-> "Mittag"]
    ELSE IF hour >= 14 /\ hour < 17 THEN
        [intervalMinutes |-> 30, firingProbability |-> 40, description |-> "Nachmittag"]
    ELSE IF hour >= 18 /\ hour < 22 THEN
        [intervalMinutes |-> 20, firingProbability |-> 50, description |-> "Abend"]
    ELSE IF hour >= 22 \/ hour < 1 THEN
        [intervalMinutes |-> 45, firingProbability |-> 25, description |-> "Nacht"]
    ELSE
        [intervalMinutes |-> 90, firingProbability |-> 20, description |-> "Deep Night"]

\* part_000:327-328: minMinutes + Math.floor(Math.random() * (interval - minMinutes)).
RandomMinutes(intervalMinutes, random) ==
    LET minMinutes == intervalMinutes \div 2
    IN  minMinutes + (random * (intervalMinutes - minMinutes)) \div 100

\* part_000:336: Math.random() < currentConfig.firingProbability.
ShouldFire(random, config) == random < config.firingProbability

\* What the backend can answer to the heartbeat request
\* (voiceTranscription.ts:519-524): send_message, a blank or non-blank
\* content, and the target after the message_target / decision-block parse.
HbResponses ==
    [send_message : BOOLEAN, content : {"blank", "text"},
     target : {"dm", "channel", "none"}]

\* The response of a cycle that has none yet.
NoResponse == [send_message |-> FALSE, content |-> "blank", target |-> "none"]

FreeSlot ==
    [pc |-> "free", hour |-> -1, intervalMinutes |-> 0, randomMinutes |-> 0,
     trial |-> "none",
     channel |-> FALSE, calls |-> 0, response |-> NoResponse, target |-> "none",
     sendChannel |-> "none", sentTo |-> "none", error |-> FALSE, prev |-> "none"]

\* The lowest free slot, 0 when every slot holds a cycle.
FirstFree == IF \E s \in Slots : hbSlot[s].pc = "free"
             THEN CHOOSE s \in Slots : hbSlot[s].pc = "free"
                                       /\ \A t \in Slots : hbSlot[t].pc = "free" => s <= t
             ELSE 0

HbOff ==
    /\ hbEnabled = FALSE /\ hbTzValid = FALSE /\ hbChannelId = FALSE
    /\ hbAllowedUser = FALSE /\ hbListenPending = FALSE
    /\ hbSlot = [s \in Slots |-> FreeSlot]

HbInit ==
    /\ hbEnabled \in BOOLEAN
    /\ hbTzValid \in BOOLEAN
    /\ hbChannelId \in BOOLEAN
    /\ hbAllowedUser \in BOOLEAN
    /\ hbListenPending = TRUE
    /\ hbSlot = [s \in Slots |-> FreeSlot]

\* How a finished callback is classified.
Outcome(slot) == IF slot.error THEN "errored"
                 ELSE IF slot.trial = "failed" THEN "skipped"
                 ELSE "fired"

\* startRandomEventTimer() run for slot s, whose last cycle ended as prev
\* (part_000:319-331).  Returns without a timer when ENABLE_TIMER is off, and
\* throws before setTimeout when getHeartbeatConfigForTime throws.
StartRandomEventTimer(s, prev) ==
    IF ~hbEnabled \/ ~hbTzValid
    THEN hbSlot' = [hbSlot EXCEPT ![s] = FreeSlot]
    ELSE \E hour \in Hours, random \in Randoms :
            LET config == getHeartbeatConfigForTime(hour) IN
            hbSlot' = [hbSlot EXCEPT ![s] =
                          [FreeSlot EXCEPT
                              !.pc = "armed",
                              !.hour = hour,
                              !.intervalMinutes = config.intervalMinutes,
                              !.randomMinutes =
                                  RandomMinutes(config.intervalMinutes, random),
                              !.prev = prev]]

\* The end of the callback, part_000:424-426: arm the 1000 ms timer.
EndCallback(slot) == [slot EXCEPT !.pc = "pause"]

\* app.listen's callback calls startRandomEventTimer once (part_000:1231).
HbListen ==
    /\ hbListenPending
    /\ hbListenPending' = FALSE
    /\ FirstFree # 0
    /\ StartRandomEventTimer(FirstFree, "none")
    /\ UNCHANGED <<hbEnabled, hbTzValid, hbChannelId, hbAllowedUser, notHb>>

\* The callback up to its first await (part_000:332-368), for a slot whose
\* timer fired: a fresh config lookup, the Bernoulli trial, and then either
\* the channel fetch, or (no channel id: sendTimerMessage(undefined) returns
\* noResult without a request) the end of the callback.
AfterTrial(slot, passed) ==
    LET fired == [slot EXCEPT !.intervalMinutes = 0, !.randomMinutes = 0,
                              !.trial = IF passed THEN "passed" ELSE "failed"]
    IN  IF passed /\ hbChannelId THEN [fired EXCEPT !.pc = "fetch"]
        ELSE EndCallback(fired)

\* A callback that goes on to the channel fetch and the backend call whatever
\* the trial gave.
HbTimerFireCallsAnyway(s) ==
    /\ hbSlot[s].pc = "armed"
    /\ \E hour \in Hours, random \in Randoms :
          LET passed == ShouldFire(random, getHeartbeatConfigForTime(hour))
              fired == [hbSlot[s] EXCEPT !.intervalMinutes = 0, !.randomMinutes = 0,
                                         !.trial = IF passed THEN "passed" ELSE "failed"]
          IN  hbSlot' = [hbSlot EXCEPT ![s] =
                            IF hbChannelId THEN [fired EXCEPT !.pc = "fetch"]
                            ELSE EndCallback(fired)]
    /\ UNCHANGED <<hbEnabled, hbTzValid, hbChannelId, hbAllowedUser, hbListenPending,
                   notHb>>

\* A callback that arms the timer of the next cycle when it starts instead of
\* when it ends.
HbTimerFireRearmsFirst(s) ==
    /\ hbSlot[s].pc = "armed"
    /\ \E t \in Slots \ {s} :
          /\ hbSlot[t].pc = "free"
          /\ \E hour \in Hours, random \in Randoms, hour2 \in Hours :
                LET config2 == getHeartbeatConfigForTime(hour2) IN
                hbSlot' = [hbSlot EXCEPT
                    ![s] = AfterTrial(hbSlot[s],
                               ShouldFire(random, getHeartbeatConfigForTime(hour))),
                    ![t] = [FreeSlot EXCEPT
                               !.pc = "armed",
                               !.intervalMinutes = config2.intervalMinutes,
                               !.randomMinutes =
                                   RandomMinutes(config2.intervalMinutes, random)]]
    /\ UNCHANGED <<hbEnabled, hbTzValid, hbChannelId, hbAllowedUser, hbListenPending,
                   notHb>>

\* The heartbeat timer of slot s fires (part_000:331-337).  A lookup that
\* throws ends the callback before it arms anything.
HbTimerFire(s) ==
    /\ hbSlot[s].pc = "armed"
    /\ IF ~hbTzValid
       THEN hbSlot' = [hbSlot EXCEPT ![s] = FreeSlot]
       ELSE \E hour \in Hours, random \in Randoms :
               hbSlot' = [hbSlot EXCEPT ![s] =
                   AfterTrial(hbSlot[s],
                              ShouldFire(random, getHeartbeatConfigForTime(hour)))]
    /\ UNCHANGED <<hbEnabled, hbTzValid, hbChannelId, hbAllowedUser, hbListenPending,
                   notHb>>

\* client.channels.fetch settles (part_000:344-364): a sendable channel, a
\* channel without send, or an error (caught).  Then sendTimerMessage(channel):
\* without a channel it returns noResult at once (voiceTranscription.ts:430),
\* with one it first awaits getRecentConversationTurns.
HbFetchDone(s) ==
    /\ hbSlot[s].pc = "fetch"
    /\ \E fetched \in {"sendable", "not sendable", "error"} :
          LET slot == [hbSlot[s] EXCEPT !.channel = (fetched = "sendable"),
                                        !.error = (fetched = "error")]
          IN  hbSlot' = [hbSlot EXCEPT ![s] =
                            IF slot.channel THEN [slot EXCEPT !.pc = "turns"]
                            ELSE EndCallback(slot)]
    /\ UNCHANGED <<hbEnabled, hbTzValid, hbChannelId, hbAllowedUser, hbListenPending,
                   notHb>>

\* getRecentConversationTurns settles (voiceTranscription.ts:437): the request
\* to the backend is issued (line 519), or the error is caught (line 564) and
\* sendTimerMessage returns noResult.
HbTurnsDone(s) ==
    /\ hbSlot[s].pc = "turns"
    /\ \E ok \in BOOLEAN :
          hbSlot' = [hbSlot EXCEPT ![s] =
              IF ok THEN [hbSlot[s] EXCEPT !.pc = "call", !.calls = @ + 1]
              ELSE EndCallback([hbSlot[s] EXCEPT !.error = TRUE])]
    /\ UNCHANGED <<hbEnabled, hbTzValid, hbChannelId, hbAllowedUser, hbListenPending,
                   notHb>>

\* A result that passes the content on whatever send_message says.
TimerResultIgnoresSendMessage(response) ==
    IF response.content = "text"
    THEN [content |-> "text", target |-> response.target]
    ELSE [content |-> "", target |-> "none"]

\* The result sendTimerMessage builds from a response (voiceTranscription.ts:546-562).
TimerResult(response) ==
    IF response.send_message /\ response.content = "text"
    THEN [content |-> "text", target |-> response.target]
    ELSE [content |-> "", target |-> "none"]

\* grokClient.chat resolves; the callback looks at the result
\* (part_000:370-388, 414-419).
HbCallDone(s) ==
    /\ hbSlot[s].pc = "call"
    /\ \E response \in HbResponses :
          LET heartbeatResult == TimerResult(response)
              slot == [hbSlot[s] EXCEPT !.response = response,
                                        !.target = heartbeatResult.target]
          IN  hbSlot' = [hbSlot EXCEPT ![s] =
                  IF heartbeatResult.content # "" /\ heartbeatResult.target # "none"
                  THEN IF heartbeatResult.target = "dm" /\ hbAllowedUser
                       THEN [slot EXCEPT !.pc = "dm"]
                       ELSE [slot EXCEPT !.pc = "send", !.sendChannel = "channel"]
                  ELSE EndCallback(slot)]
    /\ UNCHANGED <<hbEnabled, hbTzValid, hbChannelId, hbAllowedUser, hbListenPending,
                   notHb>>

\* grokClient.chat rejects: caught in sendTimerMessage (voiceTranscription.ts:564-567).
HbCallFail(s) ==
    /\ hbSlot[s].pc = "call"
    /\ hbSlot' = [hbSlot EXCEPT ![s] = EndCallback([hbSlot[s] EXCEPT !.error = TRUE])]
    /\ UNCHANGED <<hbEnabled, hbTzValid, hbChannelId, hbAllowedUser, hbListenPending,
                   notHb>>

\* client.users.fetch and user.createDM settle (part_000:376-384): the DM
\* channel, or on an error the heartbeat channel.
HbDmDone(s) ==
    /\ hbSlot[s].pc = "dm"
    /\ \E ok \in BOOLEAN :
          hbSlot' = [hbSlot EXCEPT ![s] =
              [hbSlot[s] EXCEPT !.pc = "send",
                                !.sendChannel = IF ok THEN "dm" ELSE "channel",
                                !.error = ~ok]]
    /\ UNCHANGED <<hbEnabled, hbTzValid, hbChannelId, hbAllowedUser, hbListenPending,
                   notHb>>

\* The sends to sendChannel resolve (part_000:391-405).
HbSendResolve(s) ==
    /\ hbSlot[s].pc = "send"
    /\ hbSlot' = [hbSlot EXCEPT ![s] =
                     EndCallback([hbSlot[s] EXCEPT !.sentTo = hbSlot[s].sendChannel])]
    /\ UNCHANGED <<hbEnabled, hbTzValid, hbChannelId, hbAllowedUser, hbListenPending,
                   notHb>>

\* A send rejects: caught at part_000:410-412.
HbSendReject(s) ==
    /\ hbSlot[s].pc = "send"
    /\ hbSlot' = [hbSlot EXCEPT ![s] = EndCallback([hbSlot[s] EXCEPT !.error = TRUE])]
    /\ UNCHANGED <<hbEnabled, hbTzValid, hbChannelId, hbAllowedUser, hbListenPending,
                   notHb>>

\* The 1000 ms timer fires: startRandomEventTimer() (part_000:424-426).
HbPauseFire(s) ==
    /\ hbSlot[s].pc = "pause"
    /\ StartRandomEventTimer(s, Outcome(hbSlot[s]))
    /\ UNCHANGED <<hbEnabled, hbTzValid, hbChannelId, hbAllowedUser, hbListenPending,
                   notHb>>

HbNext ==
    \/ HbListen
    \/ \E s \in Slots : HbTimerFire(s)
    \/ \E s \in Slots : HbFetchDone(s)
    \/ \E s \in Slots : HbTurnsDone(s)
    \/ \E s \in Slots : HbCallDone(s)
    \/ \E s \in Slots : HbCallFail(s)
    \/ \E s \in Slots : HbDmDone(s)
    \/ \E s \in Slots : HbSendResolve(s)
    \/ \E s \in Slots : HbSendReject(s)
    \/ \E s \in Slots : HbPauseFire(s)

\* C2: in a heartbeat cycle whose Bernoulli trial failed no backend call is
\* made, and the scheduler calls the backend only in a cycle whose trial
\* succeeded before.
C2_NoCallWithoutTrial ==
    \A s \in Slots :
        /\ hbSlot[s].trial = "failed" => hbSlot[s].calls = 0 /\ hbSlot[s].pc = "pause"
        /\ (hbSlot[s].calls > 0 \/ hbSlot[s].pc \in {"fetch", "turns", "call"})
              => hbSlot[s].trial = "passed"

\* A cycle that ended after a failed trial, and one whose call is pending.
C2_Witness ==
    \E s \in Slots :
        /\ hbSlot[s].pc = "call" /\ hbSlot[s].calls = 1
        /\ hbSlot[s].prev = "skipped"

\* The cycles that exist: a pending timer, a running callback or a pending
\* 1000 ms timer.
ActiveCycles == {s \in Slots : hbSlot[s].pc # "free"}

\* C9: at every moment at most one heartbeat cycle is pending or in flight, so
\* no two heartbeat timers and no two heartbeat backend calls overlap.
C9_OneCycleAtATime ==
    /\ Cardinality(ActiveCycles) <= 1
    /\ Cardinality({s \in Slots : hbSlot[s].pc = "armed"}) <= 1
    /\ Cardinality({s \in Slots : hbSlot[s].pc = "call"}) <= 1
    /\ hbListenPending => ActiveCycles = {}

\* The backend call of a later cycle is pending, after a cycle that fired.
C9_Witness ==
    \E s \in Slots : hbSlot[s].pc = "call" /\ hbSlot[s].prev = "fired"

\* Once a callback runs it reaches its end and the timer of the next cycle is
\* armed, whatever the fetch, the backend call, the DM creation and the send did.
RearmsAfterCallback ==
    \A s \in Slots :
        (hbSlot[s].pc \notin {"free", "armed"}) ~> (hbSlot[s].pc = "armed")

\* C8: while the heartbeat is enabled the loop never stops: whatever a cycle
\* hit, an error at the config lookup included, the timer of a next cycle is
\* armed again and again.
C8_LoopNeverStops ==
    [](hbEnabled => <>(\E s \in Slots : hbSlot[s].pc = "armed"))

\* C25: in every band of the table the delay of an armed heartbeat timer is
\* at least 50% and at most 100% of the band's base interval.
C25_DelayWithinHalfAndFull ==
    \A s \in Slots :
        hbSlot[s].pc = "armed" =>
            /\ 2 * hbSlot[s].randomMinutes >= hbSlot[s].intervalMinutes
            /\ hbSlot[s].randomMinutes <= hbSlot[s].intervalMinutes

\* C39: the deep-night configuration (90 minutes) is selected exactly for
\* the local hours 1 through 6; every other hour has one of the six other
\* bands of the table.
C39_DeepNightHours ==
    \A s \in Slots :
        hbSlot[s].pc # "free" =>
            (hbSlot[s].intervalMinutes = 90 <=> hbSlot[s].hour \in 1..6)

\* The cycles whose reply is being sent or was delivered.
Delivering == {s \in Slots : hbSlot[s].pc = "send" \/ hbSlot[s].sentTo # "none"}

\* C26: a heartbeat reply goes to the privileged user's DM only when the
\* backend's target is dm, an authorized user is configured and the DM
\* channel was created; with target dm and no authorized user, or a failed DM
\* creation, it goes to the resolved channel; with an empty text, target none
\* or send_message false nothing is delivered.
C26_HeartbeatRouting ==
    /\ \A s \in Delivering :
          /\ hbSlot[s].response.send_message
          /\ hbSlot[s].response.content = "text"
          /\ hbSlot[s].response.target # "none"
          /\ hbSlot[s].sendChannel = "dm" =>
                /\ hbSlot[s].response.target = "dm"
                /\ hbAllowedUser
          /\ (hbSlot[s].response.target = "dm" /\ ~hbAllowedUser)
                => hbSlot[s].sendChannel = "channel"
          /\ hbSlot[s].response.target = "channel"
                => hbSlot[s].sendChannel = "channel"
          /\ hbSlot[s].sentTo \in {"none", hbSlot[s].sendChannel}
    /\ \A s \in Slots :
          hbSlot[s].pc = "dm" =>
              /\ hbSlot[s].response.target = "dm" /\ hbAllowedUser
              /\ hbSlot[s].response.send_message
              /\ hbSlot[s].response.content = "text"

\* The backend chose the DM, the DM channel could not be created and the reply
\* was delivered to the heartbeat channel.
C26_Witness ==
    \E s \in Slots :
        /\ hbSlot[s].response.target = "dm" /\ hbAllowedUser
        /\ hbSlot[s].error
        /\ hbSlot[s].sentTo = "channel"

-----------------------------------------------------------------------------
(* The messageCreate handler, src/unnamed/part_000:430-771, with           *)
(* processAndSendMessage (part_000:288-317), and the second listener of    *)
(* the same event, registerAttachmentForwarder                             *)
(* (src/src/attachmentForwarder.ts:149-355).  Events are text messages,    *)
(* with or without an image attachment; voice notes, "!" commands, MCP     *)
(* commands and YouTube links are not among them.  The module ./autonomous *)
(* (trackMessage, shouldRespondAutonomously, recordBotReply) is modelled   *)
(* from section 4.1 of the specification.                                  *)
(*                                                                         *)
(* The handler is an async function: every await ends a step, and the      *)
(* steps of several invocations interleave.                                *)

MaxTurns == 2       \* handler invocations that can be in progress together

\* "Max 3 consecutive" (part_000:262).
MaxConsecutiveBotReplies == 3

\* Where a message arrives: the listening channel (the one CHANNEL_ID names
\* when it is set), another guild channel, or the DM channel.  Without
\* CHANNEL_ID every guild channel is handled alike and "chan" stands for each;
\* with it, the state of another channel is written by trackMessage but read
\* by no decision (the channel filter returns first).  The state of the DM
\* channel is written too and read by no decision (a direct message is
\* answered iff respondToDMs).  channelState holds the states that are read.
Places == {"chan", "other", "dm"}
Channels == {"chan"}
GuildChannels == {"chan"}

\* decision.context: a formatted summary or null.
Contexts == {"null", "context"}

\* The message events: who wrote it ("human" is the allow-listed user when one
\* is configured, "stranger" any other user; without ALLOWED_DM_USER_ID all
\* users are handled alike), where, and whether it carries an image attachment
\* from the Discord CDN.
Events ==
    {e \in [author : {"self", "bot", "human", "stranger"}, where : Places,
            image : BOOLEAN] :
        /\ e.where = "other" => CHANNEL_ID
        /\ e.author = "stranger" => e.where = "dm" /\ ALLOWED_DM_USER_ID
        /\ e.author = "bot" => e.where # "dm"}

\* What the handler reads of the message once it is past the gate: whether it
\* mentions the bot (message.mentions.has(client.user)), whose message it
\* replies to (message.reference and the author of the message fetched at
\* part_000:711), whether handleFileChunkRequest recognises its content, and
\* whether the awaits of the mention path (sendTyping, messages.fetch) resolve.
Contents(turn) ==
    {c \in [mentions : BOOLEAN, reference : {"none", "bot", "other"},
            fileChunk : BOOLEAN, fetched : BOOLEAN] :
        /\ turn.where = "dm" => ~c.mentions /\ c.reference = "none"
        /\ ~c.fetched => (c.mentions \/ c.reference # "none") /\ ~c.fileChunk}

\* The message addresses the bot: it mentions the bot or replies to one of the
\* bot's own messages.
Addressed(content) == content.mentions \/ content.reference = "bot"

IdleTurn ==
    [pc |-> "idle", author |-> "none", where |-> "none", via |-> "none",
     messageType |-> "none", conversationContext |-> "null", msg |-> "none",
     recorded |-> FALSE, afterFarewell |-> FALSE]

FreshState == [consecutiveBotReplies |-> 0, farewellIssued |-> FALSE]

\* The invocation turn goes on as next; IdleTurn when the handler returns.
Continue(turn, next) ==
    IF next = IdleTurn THEN hdTurns (-) SetToBag({turn})
    ELSE (hdTurns (-) SetToBag({turn})) (+) SetToBag({next})

\* The ghost count saturates here; the gate keeps it below.
RepliesBound == MaxConsecutiveBotReplies + MaxTurns

HdOff ==
    /\ ENABLE_AUTONOMOUS = FALSE /\ RESPOND_TO_BOTS = FALSE /\ RESPOND_TO_DMS = FALSE
    /\ RESPOND_TO_MENTIONS = FALSE /\ RESPOND_TO_GENERIC = FALSE
    /\ ALLOWED_DM_USER_ID = FALSE /\ CHANNEL_ID = FALSE
    /\ channelState = [c \in Channels |-> FreshState]
    /\ hdTurns = EmptyBag
    /\ nonBotSeen = {}
    /\ repliesSent = [c \in Channels |-> 0]
    /\ farewellSent = {}

\* The environment flags read at part_000 start-up; no message handled yet.
HdInit ==
    /\ ENABLE_AUTONOMOUS \in BOOLEAN /\ RESPOND_TO_BOTS \in BOOLEAN
    /\ RESPOND_TO_DMS \in BOOLEAN /\ RESPOND_TO_MENTIONS \in BOOLEAN
    /\ RESPOND_TO_GENERIC \in BOOLEAN
    /\ ALLOWED_DM_USER_ID \in BOOLEAN /\ CHANNEL_ID \in BOOLEAN
    /\ channelState = [c \in Channels |-> FreshState]
    /\ hdTurns = EmptyBag
    /\ nonBotSeen = {}
    /\ repliesSent = [c \in Channels |-> 0]
    /\ farewellSent = {}

\* trackMessage: a non-bot message resets the channel's consecutiveBotReplies.
trackMessage(state, event) ==
    IF event.author \in {"human", "stranger"} /\ event.where \in Channels
    THEN [state EXCEPT ![event.where].consecutiveBotReplies = 0]
    ELSE state

\* shouldRespondAutonomously: the decisions section 4.1 allows for an event,
\* each with the farewellIssued flag it leaves.  A direct message is answered
\* iff respondToDMs.  A bot's message is ignored after a farewell (which the
\* message uses up), and otherwise answered iff respondToBots and the counter
\* is below the cap.  A human's channel message is answered when it addresses
\* the bot and respondToMentions; otherwise the section leaves the decision to
\* the policy of the caller.  The context of a positive decision is a summary
\* or null.
shouldRespondAutonomously(event, addressed) ==
    LET st == IF event.where \in Channels THEN channelState[event.where]
              ELSE FreshState
        Yes == {[shouldRespond |-> TRUE, context |-> c,
                 farewellIssued |-> st.farewellIssued] : c \in Contexts}
        No == {[shouldRespond |-> FALSE, context |-> "null",
                farewellIssued |-> st.farewellIssued]}
    IN  IF event.where = "dm" THEN (IF RESPOND_TO_DMS THEN Yes ELSE No)
        ELSE IF event.author = "bot" THEN
            IF st.farewellIssued
            THEN {[shouldRespond |-> FALSE, context |-> "null",
                   farewellIssued |-> FALSE]}
            ELSE IF RESPOND_TO_BOTS
                    /\ st.consecutiveBotReplies < MaxConsecutiveBotReplies
                 THEN Yes ELSE No
        ELSE IF addressed /\ RESPOND_TO_MENTIONS THEN Yes
        ELSE Yes \cup No

\* recordBotReply(channelId, selfId, wasFarewell).
recordBotReply(state, channel, wasFarewell) ==
    IF channel \in Channels
    THEN [state EXCEPT ![channel] =
             [consecutiveBotReplies |-> @.consecutiveBotReplies + 1,
              farewellIssued |-> @.farewellIssued \/ wasFarewell]]
    ELSE state

\* A context selection that hands on whatever the decision carries.
ConversationContextCarried(isDM, decisionContext) == decisionContext

\* part_000:548-549:
\* conversationContext = (!isDM && decision.context) ? decision.context : null.
ConversationContext(isDM, decisionContext) ==
    IF ~isDM /\ decisionContext # "null" THEN decisionContext ELSE "null"

\* The messageType of the file-chunk path (part_000:568-574).
FileMessageType(turn, content) ==
    IF turn.where = "dm" THEN "DM"
    ELSE IF content.mentions \/ content.reference # "none" THEN "MENTION"
    ELSE "GENERIC"

\* The messageType of the mention path (part_000:709-718).
MentionMessageType(content) ==
    IF content.reference = "none" THEN "MENTION"
    ELSE IF content.reference = "bot" THEN "REPLY"
    ELSE IF content.mentions THEN "MENTION" ELSE "GENERIC"

\* The handler from the file-chunk check to its return or to the request it
\* sends to the backend (part_000:562-770), with the local
\* conversationContext: the file-chunk path (562-598), the DM path (684-704),
\* the mention path (706-759), the generic path (761-770).
Route(turn, content, conversationContext) ==
    LET request(via, messageType) ==
            [turn EXCEPT !.pc = "backend", !.via = via,
                         !.messageType = messageType,
                         !.conversationContext = conversationContext]
    IN  IF content.fileChunk THEN request("file", FileMessageType(turn, content))
        ELSE IF turn.where = "dm" THEN
            IF ALLOWED_DM_USER_ID /\ turn.author = "stranger"
            THEN [IdleTurn EXCEPT !.pc = "deny", !.author = turn.author,
                                  !.where = turn.where]
            ELSE IF RESPOND_TO_DMS THEN request("dm", "DM") ELSE IdleTurn
        ELSE IF RESPOND_TO_MENTIONS
                /\ (content.mentions \/ content.reference # "none")
        THEN IF content.fetched
             THEN request("mention", MentionMessageType(content))
             ELSE IdleTurn
        ELSE IF RESPOND_TO_GENERIC THEN request("generic", "GENERIC")
        ELSE IdleTurn

\* The attachment forwarder up to its request (attachmentForwarder.ts:149-293)
\* for a message with an image: it returns for a bot's message and for a user
\* whose last image is less than 3000 ms old; otherwise it sends the
\* processing notice and calls forwardImagesToGrok.
Forward(event, rateLimited) ==
    IF event.author \in {"self", "bot"} \/ rateLimited THEN IdleTurn
    ELSE [IdleTurn EXCEPT !.pc = "backend", !.author = event.author,
                          !.where = event.where, !.via = "image"]

\* A message event arrives and both listeners run to their first await.  The
\* handler (part_000:430-503) calls trackMessage, unless the bot wrote the
\* message, and returns when the message has an image attachment (438-446);
\* such a message is the forwarder's.
HdReceive ==
    /\ BagCardinality(hdTurns) < MaxTurns
    /\ \E event \in Events, rateLimited \in BOOLEAN :
          LET next == [IdleTurn EXCEPT
                          !.pc = "received", !.author = event.author,
                          !.where = event.where,
                          !.afterFarewell = (event.author = "bot"
                                             /\ event.where \in farewellSent)]
              nonBot == event.author \in {"human", "stranger"}
                        /\ event.where \in GuildChannels
              turn == IF event.image THEN Forward(event, rateLimited) ELSE next
          IN  /\ rateLimited => event.image /\ event.author \in {"human", "stranger"}
              /\ hdTurns' = IF turn = IdleTurn THEN hdTurns
                            ELSE hdTurns (+) SetToBag({turn})
              /\ channelState' = IF ENABLE_AUTONOMOUS /\ event.author # "self"
                                 THEN trackMessage(channelState, event)
                                 ELSE channelState
              /\ nonBotSeen' = IF nonBot THEN nonBotSeen \cup {event.where}
                               ELSE nonBotSeen
              /\ repliesSent' = IF nonBot THEN [repliesSent EXCEPT ![event.where] = 0]
                                ELSE repliesSent
              /\ farewellSent' = IF event.author = "bot"
                                 THEN farewellSent \ {event.where}
                                 ELSE farewellSent
    /\ UNCHANGED <<hdConfig, notHd>>

\* A self check that lets every message pass.
IsSelfNever(turn) == FALSE

\* message.author.id === client.user?.id (part_000:515).
IsSelf(turn) == turn.author = "self"

\* The handler goes on after handleMCPCommand (part_000:503-770): the channel
\* filter, the self check, the autonomous gate or the legacy bot check, and
\* the routing up to the request to the backend.
HdGate(turn) ==
    /\ turn.pc = "received"
    /\ IF CHANNEL_ID /\ turn.where = "other"
       THEN hdTurns' = Continue(turn, IdleTurn) /\ UNCHANGED channelState
       ELSE IF IsSelf(turn)
       THEN hdTurns' = Continue(turn, IdleTurn) /\ UNCHANGED channelState
       ELSE IF ENABLE_AUTONOMOUS
       THEN \E content \in Contents(turn) :
            \E decision \in shouldRespondAutonomously(turn, Addressed(content)) :
               /\ channelState' = IF turn.where \in Channels
                      THEN [channelState EXCEPT
                               ![turn.where].farewellIssued = decision.farewellIssued]
                      ELSE channelState
               /\ hdTurns' = Continue(turn,
                      IF ~decision.shouldRespond THEN IdleTurn
                      ELSE Route(turn, content,
                                 ConversationContext(turn.where = "dm",
                                                     decision.context)))
       ELSE \E content \in Contents(turn) :
               /\ hdTurns' = Continue(turn,
                      IF turn.author = "bot" /\ ~RESPOND_TO_BOTS THEN IdleTurn
                      ELSE Route(turn, content, "null"))
               /\ UNCHANGED channelState
    /\ UNCHANGED <<hdConfig, nonBotSeen, repliesSent, farewellSent, notHd>>

\* Whether the path that made the request calls recordBotReply before it
\* sends the reply: part_000:293-298, 578-583, 726-731 do when
\* ENABLE_AUTONOMOUS; attachmentForwarder.ts:295-312 does not.
Records(turn) == ENABLE_AUTONOMOUS /\ turn.via # "image"

\* sendMessage, or forwardImagesToGrok, resolves with msg (part_000:290-298,
\* 575-583, 723-731; attachmentForwarder.ts:295-312): an empty msg ends the
\* turn; otherwise recordBotReply where the path has it, and then the send.
HdBackendReturn(turn) ==
    /\ turn.pc = "backend"
    /\ \E msg \in {"", "text", "farewell"} :
          IF msg = ""
          THEN hdTurns' = Continue(turn, IdleTurn) /\ UNCHANGED channelState
          ELSE /\ hdTurns' = Continue(turn,
                      [IdleTurn EXCEPT !.pc = "send", !.author = turn.author,
                                       !.where = turn.where, !.msg = msg,
                                       !.recorded = Records(turn)])
               /\ channelState' = IF Records(turn)
                                  THEN recordBotReply(channelState, turn.where,
                                                      msg = "farewell")
                                  ELSE channelState
    /\ UNCHANGED <<hdConfig, nonBotSeen, repliesSent, farewellSent, notHd>>

\* The reply is delivered.
HdSendResolve(turn) ==
    /\ turn.pc = "send"
    /\ hdTurns' = Continue(turn, IdleTurn)
    /\ repliesSent' = IF turn.where \notin GuildChannels \ nonBotSeen THEN repliesSent
                      ELSE [repliesSent EXCEPT ![turn.where] =
                               Min(@ + 1, RepliesBound)]
    /\ farewellSent' = IF ENABLE_AUTONOMOUS /\ turn.msg = "farewell"
                          /\ turn.where \in Channels
                       THEN farewellSent \cup {turn.where} ELSE farewellSent
    /\ UNCHANGED <<hdConfig, channelState, nonBotSeen, notHd>>

\* The send rejects: the turn ends (the catch of processAndSendMessage,
\* part_000:314-316, or the rejection of the handler's promise).
HdSendReject(turn) ==
    /\ turn.pc = "send"
    /\ hdTurns' = Continue(turn, IdleTurn)
    /\ UNCHANGED <<hdConfig, channelState, nonBotSeen, repliesSent, farewellSent,
                   notHd>>

\* The denial reply to a DM of another user settles (part_000:689-690).
HdDenySettled(turn) ==
    /\ turn.pc = "deny"
    /\ hdTurns' = Continue(turn, IdleTurn)
    /\ UNCHANGED <<hdConfig, channelState, nonBotSeen, repliesSent, farewellSent,
                   notHd>>

HdNext ==
    \/ HdReceive
    \/ \E turn \in BagToSet(hdTurns) : HdGate(turn)
    \/ \E turn \in BagToSet(hdTurns) : HdBackendReturn(turn)
    \/ \E turn \in BagToSet(hdTurns) : HdSendResolve(turn)
    \/ \E turn \in BagToSet(hdTurns) : HdSendReject(turn)
    \/ \E turn \in BagToSet(hdTurns) : HdDenySettled(turn)

\* C1: with autonomous mode and respondToBots on, in a guild channel where only
\* bots have spoken the replies this bot has sent never number more than the
\* cap.
C1_CapBoundsBotReplies ==
    (ENABLE_AUTONOMOUS /\ RESPOND_TO_BOTS) =>
        \A c \in GuildChannels \ nonBotSeen :
            repliesSent[c] <= MaxConsecutiveBotReplies

\* C10: a request to the backend for a direct message carries no conversation
\* context of the guard.
C10_NoContextInDM ==
    \A turn \in BagToSet(hdTurns) :
        turn.where = "dm" => turn.conversationContext = "null"

\* The request of a direct message is pending while the request of a channel
\* message carries a context.
C10_Witness ==
    \E t, u \in BagToSet(hdTurns) :
        /\ ENABLE_AUTONOMOUS
        /\ t.pc = "backend" /\ t.where = "dm"
        /\ u.pc = "backend" /\ u.where = "chan"
        /\ u.conversationContext = "context"

\* C11: with an allow-listed DM user configured, a direct message of any other
\* user never leads to a request to the backend nor to a reply other than the
\* denial, on any path (text, file-chunk request, image attachment).
C11_NoBackendForOtherDmUser ==
    ALLOWED_DM_USER_ID =>
        \A turn \in BagToSet(hdTurns) :
            turn.author = "stranger" => turn.pc \notin {"backend", "send"}

\* C12: after the bot's reply with a farewell phrase is delivered in a channel,
\* the next bot-authored message of that channel gets no response.
C12_FarewellSilencesNextBot ==
    ENABLE_AUTONOMOUS =>
        \A turn \in BagToSet(hdTurns) :
            turn.afterFarewell => turn.pc \notin {"backend", "send"}

\* The bot-authored turns of channel c that have passed the guard and whose
\* reply is not yet recorded.
PassedBotTurns(c) ==
    BagCardinality([t \in {u \in BagToSet(hdTurns) :
                              /\ u.pc = "backend" /\ u.author = "bot"
                              /\ u.where = c /\ u.via # "image"}
                    |-> hdTurns[t]])

\* C13: guard decision and reply recording are serialized per channel, so
\* under every interleaving the recorded consecutive replies of a channel plus
\* the bot-authored turns that passed its cap check stay within the cap.
C13_CapHoldsUnderInterleaving ==
    ENABLE_AUTONOMOUS =>
        \A c \in Channels :
            channelState[c].consecutiveBotReplies + PassedBotTurns(c)
                <= MaxConsecutiveBotReplies

C18_OtherChannelIgnored ==
    CHANNEL_ID =>
        \A turn \in BagToSet(hdTurns) :
            turn.where = "other" => turn.pc = "received"

\* C19: with respondToGeneric off, the text message of a human in a guild
\* channel is answered only if respondToMentions is on and the message
\* mentions the bot or replies to one of the bot's own messages.
C19_HumanAnsweredOnlyWhenAddressed ==
    ~RESPOND_TO_GENERIC =>
        \A turn \in BagToSet(hdTurns) :
            (/\ turn.pc = "backend" /\ turn.author = "human"
             /\ turn.where \in GuildChannels
             /\ turn.via \in {"mention", "generic"})
            => RESPOND_TO_MENTIONS /\ turn.messageType \in {"MENTION", "REPLY"}

\* C20: with autonomous mode on, every reply the bot sends for an inbound
\* event has had its recordBotReply call.
C20_EveryReplyRecorded ==
    ENABLE_AUTONOMOUS =>
        \A turn \in BagToSet(hdTurns) : turn.pc = "send" => turn.recorded

\* C36: a bot reply is recorded in the Loop Guard only if it is delivered:
\* a turn whose send of the reply fails has not changed the channel's
\* consecutiveBotReplies and farewellIssued with a recordBotReply call.
C36_FailedSendNotRecorded ==
    [][\A turn \in BagToSet(hdTurns) :
          (HdSendReject(turn) /\ turn.where \in Channels) => ~turn.recorded]_vars

-----------------------------------------------------------------------------
(* Process shutdown: gracefulShutdown (src/unnamed/part_000:66-91) and the *)
(* SIGTERM / SIGINT handlers (part_000:93-94).  Each signal starts an      *)
(* invocation; nothing keeps a second signal from starting another one     *)
(* while the first is at an await.                                         *)

MaxSignals == 2     \* signals the process receives before it exits

SdRuns == 1..MaxSignals

IdleRun == [pc |-> "idle", signal |-> "none", voiceError |-> FALSE,
            flushError |-> FALSE]

ShutdownOff ==
    /\ sdRun = [r \in SdRuns |-> IdleRun]
    /\ sdExited = FALSE /\ sdFlush = "none" /\ sdConnection = "none"

\* The process runs, logged in to Discord or not yet.
ShutdownInit ==
    /\ sdRun = [r \in SdRuns |-> IdleRun]
    /\ sdExited = FALSE /\ sdFlush = "none"
    /\ sdConnection \in {"none", "live"}

\* A signal arrives: gracefulShutdown(signal) runs up to
\* `await shutdownVoiceSystem()` (part_000:66-71, 93-94).
SdSignal ==
    /\ ~sdExited
    /\ \E r \in SdRuns, signal \in {"SIGTERM", "SIGINT"} :
          /\ sdRun[r].pc = "idle"
          /\ \A q \in SdRuns : q < r => sdRun[q].pc # "idle"
          /\ sdRun' = [sdRun EXCEPT ![r] = [IdleRun EXCEPT !.pc = "voice",
                                                          !.signal = signal]]
    /\ UNCHANGED <<sdExited, sdFlush, sdConnection, notSd>>

\* shutdownVoiceSystem settles; a rejection is caught and logged
\* (part_000:72-76).  Then forceFlush() is called (part_000:77-80).
SdVoiceSettled(r) ==
    /\ ~sdExited
    /\ sdRun[r].pc = "voice"
    /\ \E ok \in BOOLEAN :
          sdRun' = [sdRun EXCEPT ![r].pc = "flush", ![r].voiceError = ~ok]
    /\ sdFlush' = IF sdFlush = "none" THEN "attempted" ELSE sdFlush
    /\ UNCHANGED <<sdExited, sdConnection, notSd>>

\* An invocation whose catch block rethrows a failed flush.
SdFlushSettledRethrows(r) ==
    /\ ~sdExited
    /\ sdRun[r].pc = "flush"
    /\ \E ok \in BOOLEAN :
          /\ sdRun' = [sdRun EXCEPT ![r].pc = IF ok THEN "stopAutoFlush"
                                                ELSE "thrown",
                                    ![r].flushError = ~ok]
          /\ sdFlush' = IF ok THEN "flushed" ELSE sdFlush
    /\ UNCHANGED <<sdExited, sdConnection, notSd>>

\* forceFlush settles: then stopAutoFlush() is awaited, or the rejection is
\* caught and logged and the 1000 ms timer is armed (part_000:80-88).
SdFlushSettled(r) ==
    /\ ~sdExited
    /\ sdRun[r].pc = "flush"
    /\ \E ok \in BOOLEAN :
          /\ sdRun' = [sdRun EXCEPT ![r].pc = IF ok THEN "stopAutoFlush"
                                                ELSE "pause",
                                    ![r].flushError = ~ok]
          /\ sdFlush' = IF ok THEN "flushed" ELSE sdFlush
    /\ UNCHANGED <<sdExited, sdConnection, notSd>>

\* stopAutoFlush settles, either way; the 1000 ms timer is armed
\* (part_000:81-88).
SdStopSettled(r) ==
    /\ ~sdExited
    /\ sdRun[r].pc = "stopAutoFlush"
    /\ \E ok \in BOOLEAN :
          sdRun' = [sdRun EXCEPT ![r].pc = "pause",
                                 ![r].flushError = ~ok]
    /\ UNCHANGED <<sdExited, sdFlush, sdConnection, notSd>>

\* The 1000 ms timer fires: process.exit(0) (part_000:88-90).
SdPauseFire(r) ==
    /\ ~sdExited
    /\ sdRun[r].pc = "pause"
    /\ sdRun' = [sdRun EXCEPT ![r].pc = "exit"]
    /\ sdExited' = TRUE
    /\ UNCHANGED <<sdFlush, sdConnection, notSd>>

\* What the event loop does for the invocations that are under way.
SdProgress ==
    \/ \E r \in SdRuns : SdVoiceSettled(r)
    \/ \E r \in SdRuns : SdFlushSettled(r)
    \/ \E r \in SdRuns : SdStopSettled(r)
    \/ \E r \in SdRuns : SdPauseFire(r)

ShutdownNext == SdSignal \/ SdProgress

\* C27: on SIGTERM or SIGINT the process tries to flush the conversation log
\* before it exits, and it reaches the exit after the pause even when the
\* voice shutdown or the flush throws.
C27_FlushThenExit ==
    /\ [](sdExited => sdFlush # "none")
    /\ [](\A r \in SdRuns : sdRun[r].pc # "idle" => <>sdExited)

\* The process has exited although the voice shutdown and the flush both
\* threw.
C27_Witness ==
    /\ sdExited
    /\ \E r \in SdRuns :
          sdRun[r].pc = "exit" /\ sdRun[r].voiceError /\ sdRun[r].flushError
                               /\ sdFlush = "attempted"

\* C28: when the process exits on shutdown, the live Discord connection has
\* been torn down.
C28_ConnectionTornDown ==
    sdExited => sdConnection # "live"

-----------------------------------------------------------------------------
(* The attachment forwarder's messageCreate listener                       *)
(* (src/src/attachmentForwarder.ts:149-237) next to the image check of the *)
(* main handler (src/unnamed/part_000:438-446): what the two listeners do  *)
(* with the attachments of one message.                                    *)

MaxAttachments == 2    \* attachments of a message

\* One user: the rate limit of a user reads and writes that user's entry only.
Users == {"u1"}

\* An attachment: its content type (an image type, another type, or none)
\* and its url || proxyURL (on an allowed Discord CDN domain, elsewhere or
\* malformed, or absent).
Attachments ==
    [ct : {"image/", "other", ""}, url : {"cdn", "foreign", "none"}]

Messages ==
    [author : Users \cup {"bot"}, attachments : SeqsUpTo(Attachments, MaxAttachments)]

\* validateImageUrl (attachmentForwarder.ts:94-112).
validateImageUrl(url) == url = "cdn"

\* The classification loop (attachmentForwarder.ts:156-192); each array is
\* known by the positions of its attachments.
IsImage(att) == att.ct = "image/" /\ att.url # "none"
urls(attachments) ==
    {i \in 1..Len(attachments) :
        IsImage(attachments[i]) /\ validateImageUrl(attachments[i].url)}
rejectedUrls(attachments) ==
    {i \in 1..Len(attachments) :
        IsImage(attachments[i]) /\ ~validateImageUrl(attachments[i].url)}
nonImageAttachments(attachments) ==
    {i \in 1..Len(attachments) :
        /\ ~IsImage(attachments[i])
        /\ attachments[i].url # "none" /\ attachments[i].ct # ""
        /\ validateImageUrl(attachments[i].url)}

\* What the forwarder's listener does with a message up to the rate limit
\* (attachmentForwarder.ts:149-237): "ignored" (a bot's message), "skipped"
\* (no attachments), "deferred" (left to the main handler), "notice" (the
\* invalid-source reply), "nothing" (a silent return), "rateLimited" or
\* "accepted".
ForwarderOutcome(msg, rateLimited) ==
    IF msg.author = "bot" THEN "ignored"
    ELSE IF Len(msg.attachments) = 0 THEN "skipped"
    ELSE IF urls(msg.attachments) = {} /\ nonImageAttachments(msg.attachments) # {}
    THEN "deferred"
    ELSE IF urls(msg.attachments) = {}
    THEN IF rejectedUrls(msg.attachments) # {} THEN "notice" ELSE "nothing"
    ELSE IF rateLimited THEN "rateLimited"
    ELSE "accepted"

\* The image check of the main handler (part_000:438-446): it returns when
\* an attachment has an image content type, and goes on otherwise.
HandlerOutcome(msg) ==
    IF \E i \in 1..Len(msg.attachments) : msg.attachments[i].ct = "image/"
    THEN "returned" ELSE "goesOn"

AttachOff ==
    /\ amMessage = [author |-> "none", attachments |-> <<>>]
    /\ amRateLimited = FALSE /\ amForwarder = "none" /\ amHandler = "none"

AttachInit ==
    /\ amMessage \in Messages
    /\ amRateLimited \in BOOLEAN
    /\ amRateLimited => amMessage.author \in Users
    /\ amForwarder = "none" /\ amHandler = "none"

\* The forwarder's listener runs on the message event.
AmForwarder ==
    /\ amForwarder = "none"
    /\ amForwarder' = ForwarderOutcome(amMessage, amRateLimited)
    /\ UNCHANGED <<amMessage, amRateLimited, amHandler, notAm>>

\* The main handler runs on the message event.
AmHandler ==
    /\ amHandler = "none"
    /\ amHandler' = HandlerOutcome(amMessage)
    /\ UNCHANGED <<amMessage, amRateLimited, amForwarder, notAm>>

AttachNext == AmForwarder \/ AmHandler

\* C34: a message the forwarder leaves to the main handler, because it has
\* non-image attachments and no accepted image URL, passes the image check
\* of the main handler.
C34_DeferredIsProcessed ==
    (amForwarder = "deferred" /\ amHandler # "none") => amHandler = "goesOn"

-----------------------------------------------------------------------------
(* The rate limit of the attachment forwarder                              *)
(* (src/src/attachmentForwarder.ts:224-237, 341-355): the image messages   *)
(* of each user over time, the invocations they start and the cleanup      *)
(* timers these arm.  Time is counted in seconds.                          *)

MaxTime == 12          \* the clock runs from 1 to MaxTime
MaxProcessing == 2     \* invocations of one user between acceptance and finally

\* (now - lastProcessing) < 3000, in seconds (attachmentForwarder.ts:228).
RateWindow == 3

\* setTimeout(..., 10000), in seconds (attachmentForwarder.ts:354).
CleanupDelay == 10

\* processingUsers.get(userId) of a user without an entry.
NoEntry == 0

\* lastProcessing && (now - lastProcessing) < 3000
\* (attachmentForwarder.ts:226-228).
RateLimited(lastProcessing, now) ==
    lastProcessing # NoEntry /\ now - lastProcessing < RateWindow

\* The messages that reach the rate limit: a user's message with an image
\* on the Discord CDN.
ImageMessages ==
    {msg \in Messages : msg.author \in Users /\ urls(msg.attachments) # {}
                                             /\ Len(msg.attachments) = 1}

NoMessage ==
    [author |-> "none", forwarder |-> "none", hadEarlier |-> FALSE,
     sinceEarlier |-> 0]

ForwarderOff ==
    /\ afNow = 0
    /\ processingUsers = [u \in Users |-> NoEntry]
    /\ afProcessing = [u \in Users |-> 0]
    /\ afTimers = [u \in Users |-> {}]
    /\ afLastAccept = [u \in Users |-> NoEntry]
    /\ afLast = NoMessage

ForwarderInit ==
    /\ afNow = 1
    /\ processingUsers = [u \in Users |-> NoEntry]
    /\ afProcessing = [u \in Users |-> 0]
    /\ afTimers = [u \in Users |-> {}]
    /\ afLastAccept = [u \in Users |-> NoEntry]
    /\ afLast = NoMessage

\* An image message arrives: the forwarder's listener runs to its first
\* await.  An accepted message stores its timestamp
\* (attachmentForwarder.ts:237) and goes into the try block.
AfMessage ==
    \E msg \in ImageMessages :
       LET u == msg.author
           lastProcessing == processingUsers[u]
           forwarder == ForwarderOutcome(msg, RateLimited(lastProcessing, afNow))
           accepted == forwarder = "accepted"
       IN  /\ accepted => afProcessing[u] < MaxProcessing
           /\ afLast' = [author |-> u, forwarder |-> forwarder,
                         hadEarlier |-> accepted /\ afLastAccept[u] # NoEntry,
                         sinceEarlier |-> IF accepted /\ afLastAccept[u] # NoEntry
                                          THEN afNow - afLastAccept[u] ELSE 0]
           /\ IF accepted
              THEN /\ processingUsers' = [processingUsers EXCEPT ![u] = afNow]
                   /\ afProcessing' = [afProcessing EXCEPT ![u] = @ + 1]
                   /\ afLastAccept' = [afLastAccept EXCEPT ![u] = afNow]
              ELSE UNCHANGED <<processingUsers, afProcessing, afLastAccept>>
           /\ UNCHANGED <<afNow, afTimers, notAf>>

\* An accepted invocation reaches its finally block
\* (attachmentForwarder.ts:341-355): the cleanup timer is armed.
AfFinally(u) ==
    /\ afProcessing[u] > 0
    /\ afProcessing' = [afProcessing EXCEPT ![u] = @ - 1]
    /\ afTimers' = [afTimers EXCEPT ![u] = @ \cup {afNow + CleanupDelay}]
    /\ UNCHANGED <<afNow, processingUsers, afLastAccept, afLast, notAf>>

\* A cleanup timer fires: processingUsers.delete(userId)
\* (attachmentForwarder.ts:354).
AfCleanupFire(u) ==
    \E due \in afTimers[u] :
       /\ due <= afNow
       /\ afTimers' = [afTimers EXCEPT ![u] = @ \ {due}]
       /\ processingUsers' = [processingUsers EXCEPT ![u] = NoEntry]
       /\ UNCHANGED <<afNow, afProcessing, afLastAccept, afLast, notAf>>

\* A second passes; the timers that are due have fired.
AfTick ==
    /\ afNow < MaxTime
    /\ \A u \in Users : \A due \in afTimers[u] : due > afNow
    /\ afNow' = afNow + 1
    /\ UNCHANGED <<processingUsers, afProcessing, afTimers, afLastAccept,
                   afLast, notAf>>

ForwarderNext ==
    \/ AfMessage
    \/ \E u \in Users : AfFinally(u)
    \/ \E u \in Users : AfCleanupFire(u)
    \/ AfTick

\* C31: an image message of a user is accepted no sooner than 3000 ms after
\* the previous accepted image message of that user, also when the cleanup
\* timer of an earlier request fires in between.
C31_AcceptedImagesSpaced ==
    (afLast.forwarder = "accepted" /\ afLast.hadEarlier)
        => afLast.sinceEarlier >= RateWindow

\* C32: per user at most one image-forwarding request is being processed at
\* any time.
C32_OneRequestPerUser ==
    \A u \in Users : afProcessing[u] <= 1

-----------------------------------------------------------------------------
(* GrokClient.chatStream (src/unnamed/part_001:116-172): the response body *)
(* arrives as network chunks of bytes; each chunk is decoded, appended to  *)
(* the buffer and the complete lines of the buffer are parsed.             *)
(*                                                                         *)
(* Bytes: the line feed, "e" (it stands for the prefix "event:" at the     *)
(* start of a line and for itself elsewhere), "d" (likewise for "data:"),  *)
(* and the two bytes "H" "T" of one two-byte UTF-8 character.  Characters: *)
(* the line feed, "e", "d", "HT" (the two-byte character) and "?" (U+FFFD, *)
(* what the decoder puts for a byte sequence that is not valid UTF-8).     *)

MaxStreamBytes == 5    \* bytes of a response body

Bytes == {NL, "e", "d", "H", "T"}

ByteStreams == SeqsUpTo(Bytes, MaxStreamBytes)

\* chunk.toString() (part_001:140): the bytes of one chunk decoded as UTF-8.
\* A lead byte followed by its continuation byte is one character; a lead
\* byte without it, and a continuation byte without a lead byte, decode to
\* U+FFFD.
RECURSIVE toString(_)
toString(chunk) ==
    IF chunk = <<>> THEN <<>>
    ELSE IF Head(chunk) = "H" /\ Len(chunk) > 1 /\ chunk[2] = "T"
    THEN <<"HT">> \o toString(SubSeq(chunk, 3, Len(chunk)))
    ELSE IF Head(chunk) \in {"H", "T"}
    THEN <<"?">> \o toString(Tail(chunk))
    ELSE <<Head(chunk)>> \o toString(Tail(chunk))

\* text.split('\n'): the pieces between the line feeds, the last one
\* included (it is empty when the text ends with a line feed).
RECURSIVE split(_)
split(text) ==
    IF \A i \in 1..Len(text) : text[i] # NL THEN <<text>>
    ELSE LET i == CHOOSE j \in 1..Len(text) :
                     text[j] = NL /\ \A k \in 1..(j - 1) : text[k] # NL
         IN  <<SubSeq(text, 1, i - 1)>> \o split(SubSeq(text, i + 1, Len(text)))

\* The loop over the complete lines (part_001:144-168), from the state
\* [currentEvent, yielded]: an empty line resets the event, an event line
\* sets it, a data line whose data JSON.parse accepts is yielded with it.
\* The data of a line is what follows the prefix; JSON.parse throws on the
\* empty text.
RECURSIVE ParseLines(_, _)
ParseLines(lines, state) ==
    IF lines = <<>> THEN state
    ELSE LET line == Head(lines)
             rest == Tail(lines)
         IN  IF line = <<>>
             THEN ParseLines(rest, [state EXCEPT !.currentEvent = <<>>])
             ELSE IF Head(line) = "e"
             THEN ParseLines(rest, [state EXCEPT !.currentEvent = Tail(line)])
             ELSE IF Head(line) = "d" /\ Tail(line) # <<>>
             THEN ParseLines(rest,
                     [state EXCEPT !.yielded =
                         Append(@, [event |-> state.currentEvent,
                                    data |-> Tail(line)])])
             ELSE ParseLines(rest, state)

\* The body of the for-await loop for one chunk (part_001:139-169).
OnChunk(state, chunk) ==
    LET lines == split(state.buffer \o toString(chunk))
        after == ParseLines(SubSeq(lines, 1, Len(lines) - 1),
                            [currentEvent |-> state.currentEvent,
                             yielded |-> state.yielded])
    IN  [buffer |-> lines[Len(lines)], currentEvent |-> after.currentEvent,
         yielded |-> after.yielded]

\* The chunks a byte stream arrives in when it is cut after the positions
\* in cuts.
RECURSIVE SplitAt(_, _, _)
SplitAt(bytes, cuts, from) ==
    IF from > Len(bytes) THEN <<>>
    ELSE LET ends == {i \in from..Len(bytes) : i \in cuts \/ i = Len(bytes)}
             end == CHOOSE i \in ends : \A j \in ends : i <= j
         IN  <<SubSeq(bytes, from, end)>> \o SplitAt(bytes, cuts, end + 1)

ChatStreamOff ==
    /\ csChunks = <<>> /\ csPos = -1
    /\ buffer = <<>> /\ currentEvent = <<>> /\ csYielded = <<>>

\* The request was posted and the response stream is open
\* (part_001:131-137).
ChatStreamInit ==
    /\ \E bytes \in ByteStreams : \E cuts \in SUBSET (1..(Len(bytes) - 1)) :
          csChunks = SplitAt(bytes, cuts, 1)
    /\ csPos = 0
    /\ buffer = <<>> /\ currentEvent = <<>> /\ csYielded = <<>>

\* The stream delivers its next chunk.
CsChunk ==
    /\ csPos >= 0 /\ csPos < Len(csChunks)
    /\ LET after == OnChunk([buffer |-> buffer, currentEvent |-> currentEvent,
                             yielded |-> csYielded], csChunks[csPos + 1])
       IN  /\ buffer' = after.buffer
           /\ currentEvent' = after.currentEvent
           /\ csYielded' = after.yielded
    /\ csPos' = csPos + 1
    /\ UNCHANGED <<csChunks, notCs>>

ChatStreamNext == CsChunk

\* The stream has ended: the generator returns.
ChatStreamEnded == csPos = Len(csChunks)

\* C33: the pairs chatStream yields depend on the concatenated byte stream
\* only: a stream split into network chunks yields what the same stream
\* yields when it arrives as one chunk.
C33_SplitIndependent ==
    ChatStreamEnded =>
        csYielded = OnChunk([buffer |-> <<>>, currentEvent |-> <<>>,
                             yielded |-> <<>>], Concat(csChunks)).yielded

-----------------------------------------------------------------------------
(* The backend call of forwardImagesToGrok and the reply of the listener   *)
(* that called it, in the two variants the repository has: the streaming   *)
(* one (src/src/attachmentForwarder.ts:650-718 with 297-312) and the       *)
(* non-streaming one (src/src/messages.ts:1016-1041 with 682-697).  A      *)
(* content chunk is known by its index in the answer.                      *)

MaxImageChunks == 3    \* chunks of one backend answer

\* The chunks of an answer: content with text, content that is blank
\* (content.trim() is empty), and tool calls.
ImageChunkKinds == {"content", "blank", "tool_call"}

ImageAnswers == SeqsUpTo(ImageChunkKinds, MaxImageChunks)

NoReturn == [kind |-> "none", chunks |-> {}]

\* Some collected content is not blank: reply && reply.trim().
HasText(chunks) == \E i \in chunks : irStream[i] = "content"

ImageReplyOff ==
    /\ irVariant = "none" /\ irStream = <<>> /\ irThrows = "no"
    /\ irPc = "off" /\ irPos = 0 /\ text2 = {} /\ hasSentContent = FALSE
    /\ irReturn = NoReturn /\ irSentInside = {} /\ irSentByHandler = {}

\* The images are downloaded and the request is about to be sent.  The
\* non-streaming answer is one message: one content chunk or none.
ImageReplyInit ==
    /\ irVariant \in {"streaming", "chat"}
    /\ irStream \in ImageAnswers
    /\ irThrows \in {"no", "socket", "other"}
    /\ irVariant = "chat" =>
          /\ Len(irStream) <= 1
          /\ \A i \in 1..Len(irStream) : irStream[i] # "tool_call"
          /\ irThrows # "socket"
          /\ irThrows = "other" => irStream = <<>>
    /\ irPc = "call" /\ irPos = 0 /\ text2 = {} /\ hasSentContent = FALSE
    /\ irReturn = NoReturn /\ irSentInside = {} /\ irSentByHandler = {}

\* What the streaming variant returns once the loop is over
\* (attachmentForwarder.ts:712-718).
StreamingReturn(collected, sent) ==
    IF sent THEN [kind |-> "empty", chunks |-> {}]
    ELSE [kind |-> "text", chunks |-> collected]

\* What the streaming variant does with an error of the stream loop
\* (attachmentForwarder.ts:694-741): a socket termination and an error
\* after some text keep the partial text; otherwise the error goes to the
\* outer catch block, which returns an error text.
AfterStreamError(socket, collected, sent) ==
    IF ~socket /\ collected = {} /\ ~sent
    THEN [kind |-> "error", chunks |-> {}]
    ELSE StreamingReturn(collected, sent)

\* The streaming variant takes the next chunk of the stream
\* (attachmentForwarder.ts:654-693).  A content chunk is appended to text2
\* and, when it is not blank, sent to the channel; a tool call is announced
\* in the channel.  A send that rejects throws out of the loop.
IrChunk ==
    /\ irVariant = "streaming" /\ irPc = "call"
    /\ irPos < Len(irStream)
    /\ LET i == irPos + 1
           collected == IF irStream[i] = "tool_call" THEN text2
                        ELSE text2 \cup {i}
       IN  \E sendResolves \in BOOLEAN :
              /\ ~sendResolves => irStream[i] # "blank"
              /\ text2' = collected
              /\ irPos' = i
              /\ IF sendResolves
                 THEN /\ hasSentContent' = (hasSentContent \/ irStream[i] = "content")
                      /\ irSentInside' = IF irStream[i] = "content"
                                         THEN irSentInside \cup {i}
                                         ELSE irSentInside
                      /\ UNCHANGED <<irPc, irReturn>>
                 ELSE /\ irPc' = "returned"
                      /\ irReturn' = AfterStreamError(FALSE, collected, hasSentContent)
                      /\ UNCHANGED <<hasSentContent, irSentInside>>
    /\ UNCHANGED <<irVariant, irStream, irThrows, irSentByHandler, notIr>>

\* The stream of the streaming variant ends, normally or by throwing
\* (attachmentForwarder.ts:693-718).
IrStreamEnd ==
    /\ irVariant = "streaming" /\ irPc = "call"
    /\ irPos = Len(irStream)
    /\ irPc' = "returned"
    /\ irReturn' = IF irThrows = "no" THEN StreamingReturn(text2, hasSentContent)
                   ELSE AfterStreamError(irThrows = "socket", text2, hasSentContent)
    /\ UNCHANGED <<irVariant, irStream, irThrows, irPos, text2, hasSentContent,
                   irSentInside, irSentByHandler, notIr>>

\* The non-streaming variant (messages.ts:1016-1041): grokClient.chat
\* settles; text that is not blank is sent to the channel; text2 is
\* returned.  A rejection of the call or of the send goes to the catch
\* block, which returns an error text.
IrChat ==
    /\ irVariant = "chat" /\ irPc = "call"
    /\ LET collected == 1..Len(irStream)
       IN  \E sendResolves \in BOOLEAN :
              /\ ~sendResolves => HasText(collected)
              /\ irPos' = Len(irStream)
              /\ irPc' = "returned"
              /\ IF irThrows # "no" \/ ~sendResolves
                 THEN /\ irReturn' = [kind |-> "error", chunks |-> {}]
                      /\ UNCHANGED <<text2, irSentInside>>
                 ELSE /\ text2' = collected
                      /\ irSentInside' = IF HasText(collected) THEN collected ELSE {}
                      /\ irReturn' = [kind |-> "text", chunks |-> collected]
    /\ UNCHANGED <<irVariant, irStream, irThrows, hasSentContent,
                   irSentByHandler, notIr>>

\* The listener that awaited the call (attachmentForwarder.ts:297-312,
\* messages.ts:682-697): a reply that is not blank is sent with msg.reply,
\* or in chunks; an error text is a reply like any other.
IrHandlerReply ==
    /\ irPc = "returned"
    /\ irPc' = "done"
    /\ \E sendResolves \in BOOLEAN :
          irSentByHandler' =
              IF irReturn.kind = "text" /\ HasText(irReturn.chunks) /\ sendResolves
              THEN irReturn.chunks ELSE {}
    /\ UNCHANGED <<irVariant, irStream, irThrows, irPos, text2, hasSentContent,
                   irReturn, irSentInside, notIr>>

ImageReplyNext == IrChunk \/ IrStreamEnd \/ IrChat \/ IrHandlerReply

\* C35: the backend's reply to an image message is delivered at most once:
\* no content sent to the channel inside forwardImagesToGrok is sent again
\* by the listener that called it.
C35_ImageReplyOnce ==
    irSentInside \cap irSentByHandler = {}

-----------------------------------------------------------------------------
(* The download and compress loop of forwardImagesToGrok                   *)
(* (src/src/attachmentForwarder.ts:499-599): every url is downloaded and   *)
(* compressed in turn; when no image is left the function returns a text   *)
(* that names the reason.                                                  *)

MaxImages == 3         \* urls of one message (at least one)

\* What happens to one url: downloadImage returns the image or null, and
\* compressImage returns the image or null.
ImageFates == [download : BOOLEAN, compress : BOOLEAN]

ImagePrepOff ==
    /\ ipImages = <<>> /\ ipSharp = FALSE /\ ipPos = -1
    /\ base64Images = 0 /\ skippedCount = 0 /\ ipReturn = "off"

\* forwardImagesToGrok is called with at least one url.  Without sharp,
\* compressImage returns null for every image
\* (attachmentForwarder.ts:382-386).
ImagePrepInit ==
    /\ ipImages \in SeqsUpTo(ImageFates, MaxImages) \ {<<>>}
    /\ ipSharp \in BOOLEAN
    /\ ~ipSharp => \A i \in 1..Len(ipImages) : ~ipImages[i].compress
    /\ ipPos = 0 /\ base64Images = 0 /\ skippedCount = 0 /\ ipReturn = "none"

\* One round of the loop (attachmentForwarder.ts:504-564): an image that
\* fails to download, or to compress, is skipped; another is pushed.
IpImage ==
    /\ ipReturn = "none" /\ ipPos >= 0 /\ ipPos < Len(ipImages)
    /\ LET image == ipImages[ipPos + 1]
       IN  IF image.download /\ image.compress
           THEN base64Images' = base64Images + 1 /\ UNCHANGED skippedCount
           ELSE skippedCount' = skippedCount + 1 /\ UNCHANGED base64Images
    /\ ipPos' = ipPos + 1
    /\ UNCHANGED <<ipImages, ipSharp, ipReturn, notIp>>

\* The text for the case that no image is left
\* (attachmentForwarder.ts:587-599), "payload" when some image is.
FailureReason(pushed, skipped, total, sharpAvailable) ==
    IF pushed # 0 THEN "payload"
    ELSE IF skipped = total
    THEN IF ~sharpAvailable THEN "compressionUnavailable"
         ELSE "compressionFailed"
    ELSE "downloadFailed"

\* The loop is over (attachmentForwarder.ts:566-601).
IpAfterLoop ==
    /\ ipReturn = "none" /\ ipPos = Len(ipImages)
    /\ ipReturn' = FailureReason(base64Images, skippedCount, Len(ipImages), ipSharp)
    /\ UNCHANGED <<ipImages, ipSharp, ipPos, base64Images, skippedCount, notIp>>

ImagePrepNext == IpImage \/ IpAfterLoop

\* C37: when every image of a message fails to download,
\* forwardImagesToGrok returns the "All images failed to download" text,
\* not a text about compression.
C37_DownloadFailureNamed ==
    (/\ ipReturn \notin {"off", "none"}
     /\ \A i \in 1..Len(ipImages) : ~ipImages[i].download)
        => ipReturn = "downloadFailed"

-----------------------------------------------------------------------------
(* compressImage (src/src/attachmentForwarder.ts:381-472; the copy in      *)
(* src/src/messages.ts:766-858 is the same code).  The image is known by   *)
(* its width and height; a resize to a width keeps the aspect ratio and    *)
(* never enlarges.  The size in bytes of what the encoder returns is known *)
(* only as above or within SAFE_TARGET_BYTES.  EXIF orientation is left    *)
(* out: rotate() changes nothing.                                          *)

\* MAX_DIMENSION (attachmentForwarder.ts:68), LETTA_MAX_DIMENSION
\* (messages.ts:454).
MAX_DIMENSION == 2000

\* maxAttempts (attachmentForwarder.ts:411).
maxAttempts == 10

\* The widths and heights metadata() reports for the downloaded image.
Dimensions == {500, 1000, 2000, 3000, 5000}

Max(a, b) == IF a > b THEN a ELSE b

\* resize({ width, withoutEnlargement: true }): the image scaled to the
\* given width, the height following in proportion, or the image as it is
\* when it is not wider than that.
Resize(image, toWidth) ==
    IF image.width <= toWidth THEN image
    ELSE [width |-> toWidth,
          height |-> Max(1, (2 * image.height * toWidth + image.width)
                               \div (2 * image.width))]

\* The adaptive strategy for an output that is still too large
\* (attachmentForwarder.ts:443-457).
Adapt(s) ==
    IF s.quality > 40
    THEN [s EXCEPT !.quality = Max(35, s.quality - 10)]
    ELSE IF s.width > 640
    THEN [s EXCEPT !.width = Max(640, (s.width * 8) \div 10)]
    ELSE IF s.fmt = "webp"
    THEN [s EXCEPT !.fmt = "jpeg", !.quality = 55, !.width = Min(s.width, 1024)]
    ELSE [s EXCEPT !.quality = Max(30, s.quality - 5),
                   !.width = Max(480, (s.width * 85) \div 100)]

CompressOff ==
    /\ ciSharp = FALSE /\ forceDimensionCheck = FALSE /\ ciPc = "off"
    /\ ciImage = [width |-> 0, height |-> 0] /\ ciOver = FALSE
    /\ width = 0 /\ quality = 0 /\ fmt = "none" /\ attempts = 0
    /\ needsResize = FALSE /\ ciReturn = "none"

\* compressImage is called with a downloaded image.
CompressInit ==
    /\ ciSharp \in BOOLEAN /\ forceDimensionCheck \in BOOLEAN
    /\ ciPc = "call"
    /\ ciImage \in [width : Dimensions, height : Dimensions]
    /\ ciOver \in BOOLEAN
    /\ width = 0 /\ quality = 0 /\ fmt = "none" /\ attempts = 0
    /\ needsResize = FALSE /\ ciReturn = "none"

\* The function up to the loop (attachmentForwarder.ts:382-412): null
\* without sharp or without metadata; the image as it is when nothing is to
\* be done; otherwise the locals of the loop.
CiStart ==
    /\ ciPc = "call"
    /\ \E metadataRead \in BOOLEAN :
          LET exceedsDimensions == ciImage.width > MAX_DIMENSION
                                   \/ ciImage.height > MAX_DIMENSION
          IN  IF ~ciSharp \/ ~metadataRead
              THEN /\ ciPc' = "returned" /\ ciReturn' = "null"
                   /\ UNCHANGED <<width, quality, fmt, needsResize>>
              ELSE IF ~exceedsDimensions /\ ~ciOver /\ ~forceDimensionCheck
              THEN /\ ciPc' = "returned" /\ ciReturn' = "image"
                   /\ UNCHANGED <<width, quality, fmt, needsResize>>
              ELSE /\ ciPc' = "loop" /\ ciReturn' = "none"
                   /\ width' = Min(MAX_DIMENSION, ciImage.width)
                   /\ quality' = 70 /\ fmt' = "webp"
                   /\ needsResize' = exceedsDimensions
    /\ UNCHANGED <<ciSharp, forceDimensionCheck, ciImage, ciOver, attempts, notCi>>

\* One round of the loop (attachmentForwarder.ts:414-463): the pipeline
\* resizes and encodes buf; a failure returns null.  The first round with
\* width <= MAX_DIMENSION clears needsResize; an output above the target
\* size changes quality, width or format for the next round.
CiAttempt ==
    /\ ciPc = "loop"
    /\ (ciOver \/ needsResize) /\ attempts < maxAttempts
    /\ \E encoded \in BOOLEAN, over \in BOOLEAN :
          IF ~encoded
          THEN /\ ciPc' = "returned" /\ ciReturn' = "null"
               /\ UNCHANGED <<ciImage, ciOver, width, quality, fmt, attempts,
                              needsResize>>
          ELSE LET next == IF over
                           THEN Adapt([width |-> width, quality |-> quality,
                                       fmt |-> fmt])
                           ELSE [width |-> width, quality |-> quality,
                                 fmt |-> fmt]
               IN  /\ ciImage' = Resize(ciImage, width)
                   /\ ciOver' = over
                   /\ needsResize' = (needsResize /\ ~(width <= MAX_DIMENSION))
                   /\ width' = next.width
                   /\ quality' = next.quality
                   /\ fmt' = next.fmt
                   /\ attempts' = attempts + 1
                   /\ UNCHANGED <<ciPc, ciReturn>>
    /\ UNCHANGED <<ciSharp, forceDimensionCheck, notCi>>

\* The loop is left (attachmentForwarder.ts:414, 465-471): null when buf is
\* still above the target size, buf otherwise.
CiExit ==
    /\ ciPc = "loop"
    /\ ~((ciOver \/ needsResize) /\ attempts < maxAttempts)
    /\ ciPc' = "returned"
    /\ ciReturn' = IF ciOver THEN "null" ELSE "image"
    /\ UNCHANGED <<ciSharp, forceDimensionCheck, ciImage, ciOver, width, quality,
                   fmt, attempts, needsResize, notCi>>

CompressNext == CiStart \/ CiAttempt \/ CiExit

\* C38: every image compressImage returns has a width and a height of at
\* most 2000 px.
C38_ReturnedImageWithinDimensions ==
    (ciPc = "returned" /\ ciReturn = "image")
        => ciImage.width <= MAX_DIMENSION /\ ciImage.height <= MAX_DIMENSION

-----------------------------------------------------------------------------
(* POST /api/send-message (src/unnamed/part_000:1102-1149): a message over *)
(* MAX_LENGTH characters is split at line ends, lines that are too long    *)
(* are sliced, and the chunks are sent one after the other.  The limit of  *)
(* 2000 is scaled down to ApiMaxLength.                                    *)

ApiMaxLength == 3      \* MAX_LENGTH
MaxApiLen == 7         \* characters of a message

\* text.trimEnd(): the text without its trailing white space.
RECURSIVE trimEnd(_)
trimEnd(text) ==
    IF text # <<>> /\ text[Len(text)] = NL
    THEN trimEnd(SubSeq(text, 1, Len(text) - 1))
    ELSE text

\* The loop over the lines (part_000:1111-1120), from the state
\* [currentChunk, chunks].
RECURSIVE FillChunks(_, _)
FillChunks(lines, s) ==
    IF lines = <<>> THEN s
    ELSE LET line == Head(lines)
         IN  FillChunks(Tail(lines),
                IF Len(s.currentChunk) + Len(line) + 1 <= ApiMaxLength
                THEN [s EXCEPT !.currentChunk = @ \o line \o <<NL>>]
                ELSE [currentChunk |-> line \o <<NL>>,
                      chunks |-> IF s.currentChunk # <<>>
                                 THEN Append(s.chunks, trimEnd(s.currentChunk))
                                 ELSE s.chunks])

\* chunk.slice(i, i + MAX_LENGTH) for i = 0, MAX_LENGTH, ...
\* (part_000:1130-1132).
RECURSIVE Slices(_)
Slices(chunk) ==
    IF chunk = <<>> THEN <<>>
    ELSE <<SubSeq(chunk, 1, Min(Len(chunk), ApiMaxLength))>>
            \o Slices(SubSeq(chunk, ApiMaxLength + 1, Len(chunk)))

\* The second pass (part_000:1124-1134): chunks that are too long are
\* sliced.
RECURSIVE FinalChunks(_)
FinalChunks(cs) ==
    IF cs = <<>> THEN <<>>
    ELSE (IF Len(Head(cs)) <= ApiMaxLength THEN <<Head(cs)>> ELSE Slices(Head(cs)))
            \o FinalChunks(Tail(cs))

\* The chunks of a message (part_000:1102-1137).
AutoChunk(content) ==
    IF Len(content) <= ApiMaxLength THEN <<content>>
    ELSE LET filled == FillChunks(split(content),
                                  [currentChunk |-> <<>>, chunks |-> <<>>])
             all == IF filled.currentChunk # <<>>
                    THEN Append(filled.chunks, trimEnd(filled.currentChunk))
                    ELSE filled.chunks
         IN  FinalChunks(all)

ApiSendOff ==
    /\ messageContent = <<>> /\ apPc = "off" /\ apChunks = <<>>
    /\ apStarted = <<>> /\ apInFlight = 0 /\ apStatus = 0

\* A request with a message and a channel that can be sent to.
ApiSendInit ==
    /\ messageContent \in SeqsUpTo(Alphabet, MaxApiLen) \ {<<>>}
    /\ apPc = "request" /\ apChunks = <<>>
    /\ apStarted = <<>> /\ apInFlight = 0 /\ apStatus = 0

\* The handler computes the chunks and starts the first send
\* (part_000:1102-1140).
ApChunk ==
    /\ apPc = "request"
    /\ apChunks' = AutoChunk(messageContent)
    /\ IF apChunks' = <<>>
       THEN apPc' = "responded" /\ apStatus' = 200
            /\ UNCHANGED <<apStarted, apInFlight>>
       ELSE apPc' = "sending" /\ apStarted' = <<1>> /\ apInFlight' = 1
            /\ UNCHANGED apStatus
    /\ UNCHANGED <<messageContent, notAp>>

\* The awaited send resolves (part_000:1139-1156): the next chunk is sent,
\* or the response is written.
ApSendResolve ==
    /\ apPc = "sending" /\ apInFlight = 1
    /\ IF Len(apStarted) < Len(apChunks)
       THEN /\ apStarted' = Append(apStarted, Len(apStarted) + 1)
            /\ UNCHANGED <<apPc, apInFlight, apStatus>>
       ELSE /\ apPc' = "responded" /\ apInFlight' = 0 /\ apStatus' = 200
            /\ UNCHANGED apStarted
    /\ UNCHANGED <<messageContent, apChunks, notAp>>

\* The awaited send rejects: the catch block of the route answers 500.
ApSendReject ==
    /\ apPc = "sending" /\ apInFlight = 1
    /\ apPc' = "responded" /\ apInFlight' = 0 /\ apStatus' = 500
    /\ UNCHANGED <<messageContent, apChunks, apStarted, notAp>>

ApiSendNext == ApChunk \/ ApSendResolve \/ ApSendReject

\* C40: for a message longer than the limit, every chunk /api/send-message
\* sends is non-empty and at most the limit long, and the chunks are sent
\* one at a time in order.
C40_ApiChunksSendable ==
    (apPc \in {"sending", "responded"} /\ Len(messageContent) > ApiMaxLength) =>
        /\ \A k \in 1..Len(apChunks) :
              apChunks[k] # <<>> /\ Len(apChunks[k]) <= ApiMaxLength
        /\ apInFlight <= 1
        /\ \A k \in 1..Len(apStarted) : apStarted[k] = k

-----------------------------------------------------------------------------
(* The specifications: one component runs, the others stay at rest.        *)

InitChunk == ChunkInit /\ StreamOff /\ DeliverOff /\ HbOff /\ HdOff /\ ShutdownOff /\ ForwarderOff /\ AttachOff /\ ChatStreamOff /\ ImageReplyOff /\ ImagePrepOff /\ CompressOff /\ ApiSendOff
SpecChunk == InitChunk /\ [][ChunkNext]_vars

InitStream == StreamInit /\ ChunkOff /\ DeliverOff /\ HbOff /\ HdOff /\ ShutdownOff /\ ForwarderOff /\ AttachOff /\ ChatStreamOff /\ ImageReplyOff /\ ImagePrepOff /\ CompressOff /\ ApiSendOff
SpecStream == InitStream /\ [][StreamNext]_vars

InitDeliver == DeliverInit /\ ChunkOff /\ StreamOff /\ HbOff /\ HdOff /\ ShutdownOff /\ ForwarderOff /\ AttachOff /\ ChatStreamOff /\ ImageReplyOff /\ ImagePrepOff /\ CompressOff /\ ApiSendOff
SpecDeliver == InitDeliver /\ [][DeliverNext]_vars

InitHeartbeat == HbInit /\ ChunkOff /\ StreamOff /\ DeliverOff /\ HdOff /\ ShutdownOff /\ ForwarderOff /\ AttachOff /\ ChatStreamOff /\ ImageReplyOff /\ ImagePrepOff /\ CompressOff /\ ApiSendOff
SpecHeartbeat == InitHeartbeat /\ [][HbNext]_vars

\* The event loop runs every timer that is due and every continuation whose
\* promise settled, and every awaited call settles.
SpecHeartbeatFair == SpecHeartbeat /\ WF_vars(HbNext)

InitHandler == HdInit /\ ChunkOff /\ StreamOff /\ DeliverOff /\ HbOff /\ ShutdownOff /\ ForwarderOff /\ AttachOff /\ ChatStreamOff /\ ImageReplyOff /\ ImagePrepOff /\ CompressOff /\ ApiSendOff
SpecHandler == InitHandler /\ [][HdNext]_vars

InitShutdown == ShutdownInit /\ ChunkOff /\ StreamOff /\ DeliverOff /\ HbOff /\ HdOff /\ ForwarderOff /\ AttachOff /\ ChatStreamOff /\ ImageReplyOff /\ ImagePrepOff /\ CompressOff /\ ApiSendOff
SpecShutdown == InitShutdown /\ [][ShutdownNext]_vars

\* Every awaited call of gracefulShutdown settles and its timer fires.
SpecShutdownFair == SpecShutdown /\ WF_vars(SdProgress)

InitAttach == AttachInit /\ ChunkOff /\ StreamOff /\ DeliverOff /\ HbOff /\ HdOff /\ ShutdownOff /\ ForwarderOff /\ ChatStreamOff /\ ImageReplyOff /\ ImagePrepOff /\ CompressOff /\ ApiSendOff
SpecAttach == InitAttach /\ [][AttachNext]_vars

InitForwarder == ForwarderInit /\ ChunkOff /\ StreamOff /\ DeliverOff /\ HbOff /\ HdOff /\ ShutdownOff /\ AttachOff /\ ChatStreamOff /\ ImageReplyOff /\ ImagePrepOff /\ CompressOff /\ ApiSendOff
SpecForwarder == InitForwarder /\ [][ForwarderNext]_vars

InitChatStream == ChatStreamInit /\ ChunkOff /\ StreamOff /\ DeliverOff /\ HbOff /\ HdOff /\ ShutdownOff /\ ForwarderOff /\ AttachOff /\ ImageReplyOff /\ ImagePrepOff /\ CompressOff /\ ApiSendOff
SpecChatStream == InitChatStream /\ [][ChatStreamNext]_vars

InitImageReply == ImageReplyInit /\ ChunkOff /\ StreamOff /\ DeliverOff /\ HbOff /\ HdOff /\ ShutdownOff /\ ForwarderOff /\ AttachOff /\ ChatStreamOff /\ ImagePrepOff /\ CompressOff /\ ApiSendOff
SpecImageReply == InitImageReply /\ [][ImageReplyNext]_vars

InitImagePrep == ImagePrepInit /\ ChunkOff /\ StreamOff /\ DeliverOff /\ HbOff /\ HdOff /\ ShutdownOff /\ ForwarderOff /\ AttachOff /\ ChatStreamOff /\ ImageReplyOff /\ CompressOff /\ ApiSendOff
SpecImagePrep == InitImagePrep /\ [][ImagePrepNext]_vars

InitCompress == CompressInit /\ ChunkOff /\ StreamOff /\ DeliverOff /\ HbOff /\ HdOff /\ ShutdownOff /\ ForwarderOff /\ AttachOff /\ ChatStreamOff /\ ImageReplyOff /\ ImagePrepOff /\ ApiSendOff
SpecCompress == InitCompress /\ [][CompressNext]_vars

InitApiSend == ApiSendInit /\ ChunkOff /\ StreamOff /\ DeliverOff /\ HbOff /\ HdOff /\ ShutdownOff /\ ForwarderOff /\ AttachOff /\ ChatStreamOff /\ ImageReplyOff /\ ImagePrepOff /\ CompressOff
SpecApiSend == InitApiSend /\ [][ApiSendNext]_vars

=============================================================================
